---------------------------- MODULE Spec2Model ----------------------------
(***************************************************************************)
(* Model of the statement-processing pipeline of SpendWise-API             *)
(* (src/transaction-extractor): income detection, period grouping,         *)
(* batched categorization, validation and re-categorization.               *)
(*                                                                         *)
(* Amounts are integers (currency units), confidences are hundredths       *)
(* (0.80 is 80), dates are day numbers.  A number that may be None or a    *)
(* missing key is None or Some(v); a missing string is Absent.             *)
(***************************************************************************)
EXTENDS Integers, Sequences, FiniteSets, TLC

VARIABLES
    pc,             \* position of the call being modelled
    txns,           \* `transactions`: the list handed to detect_income / group_into_periods
    income,         \* `income_transactions`
    periods,        \* `periods` returned by group_into_periods
    \* categorize_transactions
    cat_txns,       \* `transactions`: the dictionaries are updated in place
    batch_size,     \* `batch_size`
    period_context, \* `period_context`: None, or Some(income_amount)
    batch_idx,      \* number of batches processed so far
    categorized,    \* `categorized_transactions`
    categorizations,\* response of the last inference call that returned
    batch_failed,   \* whether the last iteration went through `except`
    batch_context,  \* `batch_context` of the last prompt: total_expenses_so_far
    \* extract_transactions_batch
    records,        \* `records`: the row numbers of the input rows
    chunk_size,     \* `chunk_size`
    chunk_idx,      \* number of chunks processed so far
    all_transactions,   \* `all_transactions`
    combined_result,    \* `combined_result`
    chunk_results,      \* per chunk handled: Some(`chunk_result`), None if it raised
    \* steps 5c-5e of extract_from_file
    p_idx,              \* number of periods the loop of step 5c has handled
    all_categorized,    \* `all_categorized_transactions`
    validation_results, \* what validate_periods returned
    suspicious_by_period,   \* `suspicious_by_period`, in insertion order
    r_idx,              \* number of its items the loop of step 5e has handled
    suspicious_list,    \* argument of the last re_categorize_suspicious call
    re_categorized,     \* what that call returned
    recat_outcome,      \* what the inference service did in that call
    \* BankDetector
    text,               \* `text`: the statement text, as a list of words
    detected,           \* what detect_from_text returned
    detection,          \* what detect_with_confidence returned
    \* response parser of extract_with_groq / categorize_with_groq
    engine,             \* which of the two functions parses
    clean,              \* the JSON text the response was written from
    form,               \* how the response wraps or decorates it
    response,           \* `result`: the text of the completion
    parsed,             \* the parsed structure, or the exception raised
    log             \* inference calls and time.sleep calls, in order

analysisVars == <<txns, income, periods>>
catVars == <<cat_txns, batch_size, period_context, batch_idx, categorized,
             categorizations, batch_failed, batch_context>>
extVars == <<records, chunk_size, chunk_idx, all_transactions, combined_result,
             chunk_results>>
pipeVars == <<p_idx, all_categorized, validation_results, suspicious_by_period,
              r_idx, suspicious_list, re_categorized, recat_outcome>>
bankVars == <<text, detected, detection>>
parseVars == <<engine, clean, form, response, parsed>>
vars == <<pc, analysisVars, catVars, extVars, pipeVars, bankVars, parseVars, log>>

-----------------------------------------------------------------------------
(* Bounds of the model *)

MaxTxn == 3
MaxBatchItems == 3
MaxBatchSize == 2
MaxValTxn == 2

-----------------------------------------------------------------------------
(* Values *)

None == <<>>
Some(v) == <<v>>
Absent == "<absent>"

\* Transaction ids are numbers: 0 is the id 0 (or ""), NoId a missing id
\* (txn.get('transaction_id') is None).  Both are falsy.
NoId == 0 - 1
Falsy(id) == id = 0 \/ id = NoId

Abs(x) == IF x < 0 THEN -x ELSE x

Last(s) == s[Len(s)]
Front(s) == SubSeq(s, 1, Len(s) - 1)

RECURSIVE SumSeq(_)
SumSeq(s) == IF s = <<>> THEN 0 ELSE SumSeq(Front(s)) + Last(s)

RECURSIVE Flatten(_)
Flatten(ss) == IF ss = <<>> THEN <<>> ELSE Flatten(Front(ss)) \o Last(ss)

\* A transaction dictionary.  ix is the identity of the dictionary object
\* (its position in the extracted list); transaction_id is the key the
\* inference service generated (NoId when the key is missing).
Txn(ix, id, date, amount, type, bal, desc) ==
    [ix |-> ix, transaction_id |-> id, date |-> date, amount |-> amount,
     transaction_type |-> type, balance_after |-> bal, description |-> desc,
     category |-> Absent, subcategory |-> Absent, category_confidence |-> None,
     tags |-> None, income_confidence |-> None,
     re_categorized |-> FALSE, re_categorization_reasoning |-> Absent]

-----------------------------------------------------------------------------
(* Dates and sorting: sorted(..., key=_parse_date) is a stable sort *)

ParseDate(t) == t.date

RECURSIVE InsertByDate(_, _)
InsertByDate(s, t) ==
    IF s = <<>> THEN <<t>>
    ELSE IF ParseDate(Last(s)) <= ParseDate(t) THEN Append(s, t)
    ELSE Append(InsertByDate(Front(s), t), Last(s))

RECURSIVE SortedByDate(_)
SortedByDate(s) ==
    IF s = <<>> THEN <<>> ELSE InsertByDate(SortedByDate(Front(s)), Last(s))

RECURSIVE InsertByAmountDesc(_, _)
InsertByAmountDesc(s, c) ==
    IF s = <<>> THEN <<c>>
    ELSE IF Last(s).amount >= c.amount THEN Append(s, c)
    ELSE Append(InsertByAmountDesc(Front(s), c), Last(s))

RECURSIVE SortedByAmountDesc(_)
SortedByAmountDesc(s) ==
    IF s = <<>> THEN <<>>
    ELSE InsertByAmountDesc(SortedByAmountDesc(Front(s)), Last(s))

DebitTotal(s) ==
    SumSeq([k \in 1..Len(s) |->
        IF s[k].transaction_type = "debit" THEN Abs(s[k].amount) ELSE 0])

CreditTotal(s) ==
    SumSeq([k \in 1..Len(s) |->
        IF s[k].transaction_type = "credit" THEN s[k].amount ELSE 0])

-----------------------------------------------------------------------------
(* IncomeDetector (ai/income_detector.py) *)

min_amount == 5000

\* The description is modelled by the set of keywords that occur in it
\* (`keyword in description`, after upper()).
INCOME_KEYWORDS ==
    {"MAAS", "MAAS ODEMESI", "MAAS ODEME", "SALARY", "PAYROLL", "UCRET",
     "GELIR", "HASILAT", "FAIZ GELIRI", "DIVIDEND", "YATIRIM GETIRISI"}

NON_INCOME_KEYWORDS ==
    {"HAVALE", "EFT", "TRANSFER", "IADE", "REFUND", "GERI ODEME", "BORC", "KREDI"}

Min2(a, b) == IF a <= b THEN a ELSE b
Max2(a, b) == IF a >= b THEN a ELSE b
MaxOf(S) == CHOOSE x \in S : \A y \in S : y <= x

\* for prev in reversed(sorted_transactions): the first one dated before txn
PrevTxn(st, txn) ==
    LET earlier == {k \in 1..Len(st) : ParseDate(st[k]) < ParseDate(txn)}
    IN  IF earlier = {} THEN None ELSE Some(st[MaxOf(earlier)])

\* abs(balance_increase - amount) < 1.0
BalanceMatches(balance_after, prev_balance, amount) ==
    Abs((balance_after - prev_balance) - amount) < 1

\* Primary detection: a large credit (lines 105-138)
BaseConfidence(st, txn) ==
    LET amount == Abs(txn.amount)
        prev == PrevTxn(st, txn)
    IN  IF amount >= min_amount * 2
        THEN IF txn.balance_after # None
             THEN IF prev # None /\ prev[1].balance_after # None
                  THEN IF BalanceMatches(txn.balance_after[1],
                                         prev[1].balance_after[1], amount)
                       THEN 95 ELSE 85
                  ELSE 85
             ELSE 80
        ELSE 0

\* KeywordAdjust with the size test of the non-income branch reversed
KeywordAdjustReversed(confidence, amount, description) ==
    LET has_income_keyword == description \cap INCOME_KEYWORDS # {}
        has_non_income_keyword == description \cap NON_INCOME_KEYWORDS # {}
    IN  IF has_income_keyword /\ ~has_non_income_keyword
        THEN IF confidence > 0 THEN Min2(98, confidence + 10) ELSE 70
        ELSE IF has_non_income_keyword /\ amount >= min_amount * 3
             THEN Max2(30, confidence - 20)
             ELSE confidence

\* Secondary check: keywords (lines 140-155)
KeywordAdjust(confidence, amount, description) ==
    LET has_income_keyword == description \cap INCOME_KEYWORDS # {}
        has_non_income_keyword == description \cap NON_INCOME_KEYWORDS # {}
    IN  IF has_income_keyword /\ ~has_non_income_keyword
        THEN IF confidence > 0 THEN Min2(98, confidence + 10) ELSE 70
        ELSE IF has_non_income_keyword /\ amount < min_amount * 3
             THEN Max2(30, confidence - 20)
             ELSE confidence

\* The confidence the loop of detect_income computes for one transaction;
\* 0 when the transaction is skipped (not a credit, or below the floor).
Confidence(st, txn) ==
    IF txn.transaction_type # "credit" \/ Abs(txn.amount) < min_amount
    THEN 0
    ELSE KeywordAdjust(BaseConfidence(st, txn), Abs(txn.amount), txn.description)

RECURSIVE CandidatesOf(_, _)
CandidatesOf(st, k) ==
    IF k = 0 THEN <<>>
    ELSE LET c == Confidence(st, st[k])
         IN  IF c > 0
             THEN Append(CandidatesOf(st, k - 1),
                         [transaction |-> st[k], confidence |-> c,
                          amount |-> Abs(st[k].amount)])
             ELSE CandidatesOf(st, k - 1)

IncomeCandidates(transactions) ==
    LET st == SortedByDate(transactions)
    IN  SortedByAmountDesc(CandidatesOf(st, Len(st)))

\* Twice the outlier threshold (median * 1.5, or min_amount for one candidate)
Threshold2(cands) ==
    IF Len(cands) > 1 THEN 3 * cands[(Len(cands) \div 2) + 1].amount
    ELSE 2 * min_amount

IsConfirmed(c, cands) == 2 * c.amount >= Threshold2(cands) \/ c.confidence >= 90

detect_income(transactions) ==
    LET cands == IncomeCandidates(transactions)
        kept == SelectSeq(cands, LAMBDA c : IsConfirmed(c, cands))
    IN  [k \in 1..Len(kept) |->
            [kept[k].transaction EXCEPT !.income_confidence = Some(kept[k].confidence)]]

-----------------------------------------------------------------------------
(* PeriodAnalyzer.group_into_periods (ai/period_analyzer.py) *)

\* d.isoformat() if d and d != datetime.min else None; day 0 is datetime.min
IsoDate(d) == IF d = 0 THEN None ELSE Some(d)

PeriodName(i) == "period-" \o ToString(i)

NoIncomePeriodWithoutTransactions(st) ==
    [period_id |-> "no-income",
     start_date |-> IF st = <<>> THEN None ELSE IsoDate(ParseDate(st[1])),
     end_date |-> IF st = <<>> THEN None ELSE IsoDate(ParseDate(Last(st))),
     income_amount |-> 0, income_transaction |-> None,
     starting_balance |-> None, ending_balance |-> None,
     transactions |-> <<>>,
     total_expenses |-> 0, total_credits |-> Some(0),
     other_credits |-> None, remaining_from_income |-> None,
     remaining_balance |-> Some(0)]

NoIncomePeriod(st) ==
    [period_id |-> "no-income",
     start_date |-> IF st = <<>> THEN None ELSE IsoDate(ParseDate(st[1])),
     end_date |-> IF st = <<>> THEN None ELSE IsoDate(ParseDate(Last(st))),
     income_amount |-> 0, income_transaction |-> None,
     starting_balance |-> None, ending_balance |-> None,
     transactions |-> st,
     total_expenses |-> DebitTotal(st), total_credits |-> Some(CreditTotal(st)),
     other_credits |-> None, remaining_from_income |-> None,
     remaining_balance |-> Some(0)]

PreIncomePeriod(pre_income_txns) ==
    [period_id |-> "pre-income",
     start_date |-> IsoDate(ParseDate(pre_income_txns[1])),
     end_date |-> IsoDate(ParseDate(Last(pre_income_txns))),
     income_amount |-> 0, income_transaction |-> None,
     starting_balance |-> None, ending_balance |-> None,
     transactions |-> pre_income_txns,
     total_expenses |-> DebitTotal(pre_income_txns),
     total_credits |-> Some(CreditTotal(pre_income_txns)),
     other_credits |-> None, remaining_from_income |-> None,
     remaining_balance |-> Some(0)]

\* The chain with its first two steps exchanged: the previous period first
StartingBalancePreviousFirst(income_txn, i, prev_periods) ==
    LET income_amount == Abs(income_txn.amount)
    IN  IF i > 1 /\ prev_periods # <<>>
        THEN (IF Last(prev_periods).ending_balance = None THEN 0
              ELSE Last(prev_periods).ending_balance[1]) + income_amount
        ELSE IF income_txn.balance_after # None THEN income_txn.balance_after[1]
             ELSE income_amount

\* Lines 97-109: the balance after the income, else the previous period's
\* ending balance plus the income, else the income itself
StartingBalance(income_txn, i, prev_periods) ==
    LET income_amount == Abs(income_txn.amount)
    IN  IF income_txn.balance_after # None THEN income_txn.balance_after[1]
        ELSE IF i > 1 /\ prev_periods # <<>>
             THEN (IF Last(prev_periods).ending_balance = None THEN 0
                   ELSE Last(prev_periods).ending_balance[1]) + income_amount
             ELSE income_amount

\* Lines 111-117
PeriodEnd(st, si, i) ==
    IF i + 1 <= Len(si) THEN ParseDate(si[i + 1])
    ELSE IF st # <<>> THEN ParseDate(Last(st)) ELSE ParseDate(si[i])

\* Lines 119-123: income_date < date < period_end
InPeriod(t, income_date, period_end) ==
    income_date < ParseDate(t) /\ ParseDate(t) < period_end

\* The credits summed over the period's whole list, the income included
OtherCreditsWithIncome(income_txn, period_txns) ==
    CreditTotal(<<income_txn>> \o period_txns)

\* Lines 132-137: the credits of period_txns, where the income is not
OtherCredits(income_txn, period_txns) == CreditTotal(period_txns)

\* One iteration of the loop over sorted_income (i is 1-based here)
IncomePeriod(st, si, i, prev_periods) ==
    LET income_txn == si[i]
        income_date == ParseDate(income_txn)
        income_amount == Abs(income_txn.amount)
        starting_balance == StartingBalance(income_txn, i, prev_periods)
        period_end == PeriodEnd(st, si, i)
        period_txns == SelectSeq(st, LAMBDA t : InPeriod(t, income_date, period_end))
        total_expenses == DebitTotal(period_txns)
        other_credits == OtherCredits(income_txn, period_txns)
    IN  [period_id |-> PeriodName(i),
         start_date |-> IsoDate(income_date),
         end_date |-> IsoDate(period_end),
         income_amount |-> income_amount,
         income_transaction |-> Some(income_txn),
         starting_balance |-> Some(starting_balance),
         ending_balance |-> Some(starting_balance - total_expenses + other_credits),
         transactions |-> SortedByDate(<<income_txn>> \o period_txns),
         total_expenses |-> total_expenses, total_credits |-> None,
         other_credits |-> Some(other_credits),
         remaining_from_income |-> Some(income_amount - total_expenses),
         remaining_balance |-> None]

RECURSIVE IncomePeriods(_, _, _, _)
IncomePeriods(st, si, i, acc) ==
    IF i > Len(si) THEN acc
    ELSE IncomePeriods(st, si, i + 1, Append(acc, IncomePeriod(st, si, i, acc)))

group_into_periods(transactions, income_transactions) ==
    LET st == SortedByDate(transactions)
        si == SortedByDate(income_transactions)
    IN  IF si = <<>> THEN <<NoIncomePeriod(st)>>
        ELSE LET first_income_date == ParseDate(si[1])
                 pre_income_txns ==
                     SelectSeq(st, LAMBDA t : ParseDate(t) < first_income_date)
             IN  IncomePeriods(st, si, 1,
                     IF pre_income_txns # <<>>
                     THEN <<PreIncomePeriod(pre_income_txns)>> ELSE <<>>)

-----------------------------------------------------------------------------
(* TransactionCategoryEngine.categorize_transactions                        *)
(* (ai/categorization_engine.py)                                            *)

CATEGORIES ==
    {"Food & Dining", "Shopping", "Bills & Utilities", "Transportation",
     "Entertainment", "Healthcare", "Education", "Personal Care", "Travel",
     "Financial", "Income", "Transfers", "Other"}

\* One entry of the JSON array the inference service returned.  A missing
\* key is Absent (strings), None or NoId (transaction_id).
CatEntry(id, category, subcategory, confidence, tags) ==
    [transaction_id |-> id, category |-> category, subcategory |-> subcategory,
     confidence |-> confidence, tags |-> tags]

\* txn['category'] = cat_info.get('category', 'Other') ... (lines 352-355)
ApplyCategorization(txn, cat_info) ==
    [txn EXCEPT
        !.category = IF cat_info.category = Absent THEN "Other"
                     ELSE cat_info.category,
        !.subcategory = IF cat_info.subcategory = Absent THEN "Uncategorized"
                        ELSE cat_info.subcategory,
        !.category_confidence = IF cat_info.confidence = None THEN Some(50)
                                ELSE cat_info.confidence,
        !.tags = IF cat_info.tags = None THEN Some({}) ELSE cat_info.tags]

\* Lines 368-371 and 386-389
FallbackCategorization(txn) ==
    [txn EXCEPT !.category = "Other", !.subcategory = "Uncategorized",
                !.category_confidence = Some(0), !.tags = Some({})]

\* cat_map = {cat.get('transaction_id'): cat for cat in categorizations}:
\* a later entry with the same id replaces an earlier one
InCatMap(cats, id) == \E j \in 1..Len(cats) : cats[j].transaction_id = id
CatMapGet(cats, id) ==
    cats[MaxOf({j \in 1..Len(cats) : cats[j].transaction_id = id})]

\* Equality of two dictionaries: the identity ix is not a key
SameDict(a, b) == [a EXCEPT !.ix = 0] = [b EXCEPT !.ix = 0]

\* batch.index(txn) + 1: the first position holding an equal dictionary
IndexOf(batch, txn) ==
    CHOOSE q \in 1..Len(batch) :
        /\ SameDict(batch[q], txn)
        /\ \A r \in 1..(q - 1) : ~SameDict(batch[r], txn)

\* Body of the merge loop for the transaction at position p (lines 347-371)
MergeOne(batch, cats, p) ==
    LET txn == batch[p]
        txn_id == txn.transaction_id
    IN  IF ~Falsy(txn_id) /\ InCatMap(cats, txn_id)
        THEN ApplyCategorization(txn, CatMapGet(cats, txn_id))
        ELSE LET txn_idx == IndexOf(batch, txn)
             IN  IF txn_idx <= Len(cats)
                 THEN ApplyCategorization(txn, cats[txn_idx])
                 ELSE FallbackCategorization(txn)

\* The merge loop: the dictionaries of the batch are updated one after another
RECURSIVE MergeFrom(_, _, _)
MergeFrom(batch, cats, p) ==
    IF p > Len(batch) THEN batch
    ELSE MergeFrom([batch EXCEPT ![p] = MergeOne(batch, cats, p)], cats, p + 1)

MergeBatch(batch, cats) == MergeFrom(batch, cats, 1)

\* An except branch that leaves the batch as it is
KeepBatch(batch) == batch

\* The except branch (lines 385-390)
FallbackBatch(batch) == [p \in 1..Len(batch) |-> FallbackCategorization(batch[p])]

\* A split that leaves out a short last batch
TotalBatchesFloor(n, size) == n \div size

\* batches = [transactions[i:i + batch_size] for i in range(0, total, batch_size)]
TotalBatches(n, size) == (n + size - 1) \div size
BatchFirst(k, size) == (k - 1) * size + 1
BatchLast(k, size, n) == Min2(k * size, n)
BatchOf(ts, k, size) == SubSeq(ts, BatchFirst(k, size), BatchLast(k, size, Len(ts)))

\* transactions[:batch_idx * batch_size - len(batch)] (line 330)
ExpensesBefore(ts, k, size) ==
    LET batch == BatchOf(ts, k, size)
        upto == Min2(k * size - Len(batch), Len(ts))
    IN  DebitTotal(SubSeq(ts, 1, upto))

BatchContext(ctx, ts, k, size) ==
    IF ctx = None THEN None ELSE Some(ExpensesBefore(ts, k, size))

\* ts with the positions of batch k replaced by the updated dictionaries
WithBatch(ts, k, size, updated) ==
    [j \in 1..Len(ts) |->
        IF j >= BatchFirst(k, size) /\ j <= BatchLast(k, size, Len(ts))
        THEN updated[j - BatchFirst(k, size) + 1] ELSE ts[j]]

\* Lines 377-380: the wait after a batch that was categorized
SleepAfterBatch(k, total_batches) ==
    IF k < total_batches THEN <<"sleep">> ELSE <<>>

\* A failure branch that goes on to the next batch without waiting
NoSleepAfterFailedBatch(k, total_batches) == <<>>

\* Lines 392-394: the wait after a batch that failed
SleepAfterFailedBatch(k, total_batches) ==
    IF k < total_batches THEN <<"sleep">> ELSE <<>>

CatIdle ==
    /\ cat_txns = <<>>
    /\ batch_size = 0
    /\ period_context = None
    /\ batch_idx = 0
    /\ categorized = <<>>
    /\ categorizations = <<>>
    /\ batch_failed = FALSE
    /\ batch_context = None

\* Lines 305-317: an empty list is returned at once
CatStart ==
    /\ pc = "cat_start"
    /\ pc' = IF Len(cat_txns) = 0 THEN "cat_done" ELSE "cat_loop"
    /\ UNCHANGED <<bankVars, parseVars, pipeVars, analysisVars, catVars, extVars, log>>

CatAfter(k) ==
    IF k = TotalBatches(Len(cat_txns), batch_size) THEN "cat_done" ELSE "cat_loop"

\* One iteration of the loop whose inference call returns the list resp
CategorizeBatchOk(resp) ==
    /\ pc = "cat_loop"
    /\ LET k == batch_idx + 1
           total_batches == TotalBatches(Len(cat_txns), batch_size)
           updated == MergeBatch(BatchOf(cat_txns, k, batch_size), resp)
       IN  /\ batch_context' = BatchContext(period_context, cat_txns, k, batch_size)
           /\ categorizations' = resp
           /\ batch_failed' = FALSE
           /\ cat_txns' = WithBatch(cat_txns, k, batch_size, updated)
           /\ categorized' = categorized \o updated
           /\ log' = log \o <<"call">> \o SleepAfterBatch(k, total_batches)
           /\ batch_idx' = k
           /\ pc' = CatAfter(k)
    /\ UNCHANGED <<bankVars, parseVars, pipeVars, analysisVars, extVars, batch_size, period_context>>

\* One iteration of the loop whose inference call raises
CategorizeBatchRaise ==
    /\ pc = "cat_loop"
    /\ LET k == batch_idx + 1
           total_batches == TotalBatches(Len(cat_txns), batch_size)
           updated == FallbackBatch(BatchOf(cat_txns, k, batch_size))
       IN  /\ batch_context' = BatchContext(period_context, cat_txns, k, batch_size)
           /\ batch_failed' = TRUE
           /\ cat_txns' = WithBatch(cat_txns, k, batch_size, updated)
           /\ categorized' = categorized \o updated
           /\ log' = log \o <<"call">> \o SleepAfterFailedBatch(k, total_batches)
           /\ batch_idx' = k
           /\ pc' = CatAfter(k)
    /\ UNCHANGED <<bankVars, parseVars, pipeVars, analysisVars, extVars, batch_size, period_context, categorizations>>

-----------------------------------------------------------------------------
(* AIExtractionEngine.extract_transactions_batch (ai/extraction_engine.py) *)

\* The bank_name argument (the detected bank)
DetectedBank == "detected"

\* Lines 241-250
InitialCombinedResult ==
    [bank_name |-> DetectedBank, currency |-> "TRY", transactions |-> <<>>,
     account_number |-> Absent, statement_period_start |-> Absent,
     statement_period_end |-> Absent, opening_balance |-> Absent,
     closing_balance |-> Absent]

\* What extract_transactions returns for one chunk: the fields of the JSON
\* object, all carrying the label m of that response, and its transactions
ChunkResult(m, transactions) ==
    [bank_name |-> m, currency |-> m, account_number |-> m,
     statement_period_start |-> m, statement_period_end |-> m,
     closing_balance |-> m, transactions |-> transactions]

\* The metadata taken from every chunk that returns, the last one winning
UpdateCombinedEveryChunk(combined, chunk_result, k, total_chunks) ==
    [combined EXCEPT
        !.bank_name = chunk_result.bank_name,
        !.account_number = chunk_result.account_number,
        !.statement_period_start = chunk_result.statement_period_start,
        !.currency = chunk_result.currency,
        !.statement_period_end = chunk_result.statement_period_end,
        !.closing_balance = chunk_result.closing_balance]

\* Lines 278-288: metadata of the first and of the last chunk
UpdateCombined(combined, chunk_result, k, total_chunks) ==
    LET first == IF k = 1
                 THEN [combined EXCEPT
                          !.bank_name = chunk_result.bank_name,
                          !.account_number = chunk_result.account_number,
                          !.statement_period_start = chunk_result.statement_period_start,
                          !.currency = chunk_result.currency]
                 ELSE combined
    IN  IF k = total_chunks
        THEN [first EXCEPT
                 !.statement_period_end = chunk_result.statement_period_end,
                 !.closing_balance = chunk_result.closing_balance]
        ELSE first

\* Lines 290-293: the wait after a chunk that was extracted
SleepAfterChunk(k, total_chunks) ==
    IF k < total_chunks THEN <<"sleep">> ELSE <<>>

\* Lines 297-300: the wait after a chunk that failed
SleepAfterFailedChunk(k, total_chunks) ==
    IF k < total_chunks THEN <<"sleep">> ELSE <<>>

ExtIdle ==
    /\ records = <<>>
    /\ chunk_size = 0
    /\ chunk_idx = 0
    /\ all_transactions = <<>>
    /\ combined_result = InitialCombinedResult
    /\ chunk_results = <<>>

\* One iteration of the loop whose extract_transactions call returns res
ExtractChunkOk(res) ==
    /\ pc = "ext_loop"
    /\ chunk_idx < TotalBatches(Len(records), chunk_size)
    /\ LET k == chunk_idx + 1
           total_chunks == TotalBatches(Len(records), chunk_size)
       IN  /\ all_transactions' = all_transactions \o res.transactions
           /\ combined_result' = UpdateCombined(combined_result, res, k, total_chunks)
           /\ log' = log \o <<"call">> \o SleepAfterChunk(k, total_chunks)
           /\ chunk_results' = Append(chunk_results, Some(res))
           /\ chunk_idx' = k
    /\ UNCHANGED <<bankVars, parseVars, pipeVars, pc, analysisVars, catVars, records, chunk_size>>

\* The loop left at the first failed chunk
BreakAfterFailedChunk(k, total_chunks) == total_chunks

\* Line 302, `continue`: the chunks handled once chunk k has failed
ContinueAfterFailedChunk(k, total_chunks) == k

\* One iteration of the loop whose extract_transactions call raises
ExtractChunkRaise ==
    /\ pc = "ext_loop"
    /\ chunk_idx < TotalBatches(Len(records), chunk_size)
    /\ LET k == chunk_idx + 1
           total_chunks == TotalBatches(Len(records), chunk_size)
       IN  /\ log' = log \o <<"call">> \o SleepAfterFailedChunk(k, total_chunks)
           /\ chunk_results' = Append(chunk_results, None)
           /\ chunk_idx' = ContinueAfterFailedChunk(k, total_chunks)
    /\ UNCHANGED <<bankVars, parseVars, pipeVars, pc, analysisVars, catVars, records, chunk_size,
                   all_transactions, combined_result>>

\* Lines 304-321: after the loop
ExtractReturn ==
    /\ pc = "ext_loop"
    /\ chunk_idx = TotalBatches(Len(records), chunk_size)
    /\ combined_result' = [combined_result EXCEPT !.transactions = all_transactions]
    /\ pc' = "ext_done"
    /\ UNCHANGED <<bankVars, parseVars, pipeVars, analysisVars, catVars, records, chunk_size, chunk_idx,
                   all_transactions, chunk_results, log>>

-----------------------------------------------------------------------------
(* CategorizationValidator (ai/categorization_validator.py)                 *)

\* Lines 16-18, in hundredths
max_spending_ratio == 100
suspicious_single_txn_ratio == 50
suspicious_category_ratio == 30

\* x / y as a float: the pair of the two numbers
Ratio(x, y) == <<x, y>>

\* Lines 89-96 and 128-136: one entry of `warnings`
Warning(type, period_id, category, income_amount, total, excess, ratio, severity) ==
    [type |-> type, period_id |-> period_id, category |-> category,
     income_amount |-> income_amount, total |-> total, excess |-> excess,
     ratio |-> ratio, severity |-> severity]

\* period_id == 'pre-income' or income_amount == 0 (line 81)
SkipsPeriod(period) == period.period_id = "pre-income" \/ period.income_amount = 0

\* Check 1 with >= in the place of >
SpendingWarningsAtThreshold(period) ==
    IF period.total_expenses * 100 >= period.income_amount * max_spending_ratio
    THEN << Warning("spending_exceeds_income", period.period_id, Absent,
                    period.income_amount, period.total_expenses,
                    Some(period.total_expenses - period.income_amount), None, "high") >>
    ELSE <<>>

\* Check 1 (lines 85-101)
SpendingWarnings(period) ==
    IF period.total_expenses * 100 > period.income_amount * max_spending_ratio
    THEN << Warning("spending_exceeds_income", period.period_id, Absent,
                    period.income_amount, period.total_expenses,
                    Some(period.total_expenses - period.income_amount), None, "high") >>
    ELSE <<>>

\* The test of check 2 with >= in the place of >
IsSuspiciousAtThreshold(txn, income_amount) ==
    /\ txn.transaction_type = "debit"
    /\ Abs(txn.amount) * 100 >= income_amount * suspicious_single_txn_ratio

\* txn_amount > income_amount * self.suspicious_single_txn_ratio (lines 105-107)
IsSuspicious(txn, income_amount) ==
    /\ txn.transaction_type = "debit"
    /\ Abs(txn.amount) * 100 > income_amount * suspicious_single_txn_ratio

\* Lines 108-116 (the `reason` text is left out)
SuspiciousEntry(period, txn) ==
    [transaction_id |-> txn.transaction_id, period_id |-> period.period_id,
     amount |-> Abs(txn.amount), income_amount |-> period.income_amount,
     ratio |-> Ratio(Abs(txn.amount), period.income_amount),
     current_category |-> IF txn.category = Absent THEN "Unknown" ELSE txn.category]

\* Check 2 (lines 104-116)
SuspiciousOf(period) ==
    LET flagged == SelectSeq(period.transactions,
                             LAMBDA t : IsSuspicious(t, period.income_amount))
    IN  [k \in 1..Len(flagged) |-> SuspiciousEntry(period, flagged[k])]

\* txn.get('category', 'Other') (line 122)
CategoryOf(txn) == IF txn.category = Absent THEN "Other" ELSE txn.category

\* The keys of category_totals in insertion order (lines 119-124)
RECURSIVE CategoryKeys(_)
CategoryKeys(ts) ==
    IF ts = <<>> THEN <<>>
    ELSE LET keys == CategoryKeys(Front(ts))
             t == Last(ts)
         IN  IF t.transaction_type = "debit"
                /\ \A k \in 1..Len(keys) : keys[k] # CategoryOf(t)
             THEN Append(keys, CategoryOf(t)) ELSE keys

CategoryTotal(ts, category) ==
    DebitTotal(SelectSeq(ts, LAMBDA t : CategoryOf(t) = category))

\* Check 3 (lines 126-141)
CategoryWarnings(period) ==
    LET keys == CategoryKeys(period.transactions)
        over == SelectSeq(keys, LAMBDA c :
                    CategoryTotal(period.transactions, c) * 100
                        > period.income_amount * suspicious_category_ratio)
    IN  [k \in 1..Len(over) |->
            Warning("category_exceeds_threshold", period.period_id, over[k],
                    period.income_amount, CategoryTotal(period.transactions, over[k]),
                    None,
                    Some(Ratio(CategoryTotal(period.transactions, over[k]),
                               period.income_amount)),
                    "medium")]

\* Lines 69-73
NoValidationResults ==
    [warnings |-> <<>>, suspicious_transactions |-> <<>>, period_issues |-> <<>>]

validate_periods(ps) ==
    LET checked == SelectSeq(ps, LAMBDA period : ~SkipsPeriod(period))
    IN  [warnings |->
            Flatten([k \in 1..Len(checked) |->
                SpendingWarnings(checked[k]) \o CategoryWarnings(checked[k])]),
         suspicious_transactions |->
            Flatten([k \in 1..Len(checked) |-> SuspiciousOf(checked[k])]),
         period_issues |->
            Flatten([k \in 1..Len(checked) |->
                IF SpendingWarnings(checked[k]) # <<>>
                THEN <<checked[k].period_id>> ELSE <<>>])]

\* What the inference service did in a re-categorization call (kind): it
\* raised; its text holds no JSON array ("no_json"); the array found in it
\* does not parse ("bad_json"); or the text parsed to the list `entries`
RecatOutcome(kind, entries) == [kind |-> kind, entries |-> entries]

\* One element of the parsed list; is_dict is FALSE for one that is no object
RecatEntry(is_dict, id, category, subcategory, confidence, reasoning) ==
    [is_dict |-> is_dict, transaction_id |-> id, category |-> category,
     subcategory |-> subcategory, confidence |-> confidence, reasoning |-> reasoning]

\* Lines 269-276: a new dictionary made of txn and of the entry recat
UpdatedTxn(txn, recat) ==
    [txn EXCEPT
        !.category = IF recat.category # Absent THEN recat.category
                     ELSE CategoryOf(txn),
        !.subcategory = IF recat.subcategory # Absent THEN recat.subcategory
                        ELSE IF txn.subcategory = Absent THEN "Uncategorized"
                        ELSE txn.subcategory,
        !.category_confidence = IF recat.confidence # None THEN recat.confidence
                                ELSE Some(50),
        !.re_categorized = TRUE,
        !.re_categorization_reasoning =
            IF recat.reasoning # Absent THEN recat.reasoning
            ELSE "Re-categorized due to income context"]

\* A failure path that returns nothing
DropOnFailure(suspicious_transactions) == <<>>

\* `return suspicious_transactions` (lines 262 and 289)
ReturnOriginal(suspicious_transactions) == suspicious_transactions

re_categorize_suspicious(suspicious_transactions, outcome) ==
    IF suspicious_transactions = <<>> THEN <<>>
    ELSE IF outcome.kind # "list" THEN ReturnOriginal(suspicious_transactions)
    ELSE IF \E i \in 1..Min2(Len(suspicious_transactions), Len(outcome.entries)) :
                ~outcome.entries[i].is_dict
         THEN ReturnOriginal(suspicious_transactions)
    ELSE [i \in 1..Len(suspicious_transactions) |->
            IF i <= Len(outcome.entries)
            THEN UpdatedTxn(suspicious_transactions[i], outcome.entries[i])
            ELSE suspicious_transactions[i]]

\* The state of steps 5c-5e before they begin
PipeIdle ==
    /\ p_idx = 0
    /\ all_categorized = <<>>
    /\ validation_results = NoValidationResults
    /\ suspicious_by_period = <<>>
    /\ r_idx = 0
    /\ suspicious_list = <<>>
    /\ re_categorized = <<>>
    /\ recat_outcome = "none"

-----------------------------------------------------------------------------
(* BankDetector.  A text is a list of fragments separated by ";", so that   *)
(* no pattern matches across two fragments.  Turkish letters are written    *)
(* without their diacritics.                                                *)

BankPattern(bank, patterns) == [bank |-> bank, patterns |-> patterns]

\* BANK_PATTERNS, in the insertion order of the dictionary
BANK_PATTERNS ==
    << BankPattern("Garanti BBVA", <<"Garanti\\s+BBVA", "Garanti\\s+Bankasi",
                                     "GARANTIBBVA", "T\\.\\s*Garanti">>),
       BankPattern("Is Bankasi", <<"Is\\s+Bankasi", "Turkiye\\s+Is\\s+Bankasi",
                                   "ISBANK", "T\\.\\s*Is\\s*Bankasi">>),
       BankPattern("Yapi Kredi", <<"Yapi\\s+Kredi", "Yapi\\s+ve\\s+Kredi\\s+Bankasi",
                                   "YAPIKREDI", "YKB">>),
       BankPattern("Akbank", <<"Akbank", "AKBANK", "T\\.\\s*Akbank">>),
       BankPattern("Ziraat Bankasi", <<"Ziraat\\s+Bankasi",
                                       "T\\.\\s*C\\.\\s*Ziraat\\s+Bankasi",
                                       "ZIRAATBANK">>),
       BankPattern("Halkbank", <<"Halk\\s+Bankasi", "Halkbank",
                                 "T\\.\\s*C\\.\\s*Halkbank">>),
       BankPattern("Vakifbank", <<"Vakifbank", "Vakif\\s+Bank",
                                  "T\\.\\s*Vakiflar\\s+Bankasi">>),
       BankPattern("Denizbank", <<"Denizbank", "Deniz\\s+Bank">>),
       BankPattern("QNB Finansbank", <<"QNB\\s+Finansbank", "Finansbank",
                                       "QNB\\s+Finans">>),
       BankPattern("TEB", <<"TEB", "Turk\\s+Ekonomi\\s+Bankasi",
                            "T\\.\\s*Ekonomi\\s+Bankasi">>),
       BankPattern("ING Bank", <<"ING\\s+Bank", "ING">>),
       BankPattern("HSBC", <<"HSBC", "HSBC\\s+Bank">>),
       BankPattern("Kuveyt Turk", <<"Kuveyt\\s+Turk", "KuveytTurk">>),
       BankPattern("Albaraka Turk", <<"Albaraka\\s+Turk", "AlbarakaTurk">>) >>

\* The fragments a text is made of
BankWords == {"Garanti BBVA", "T. Garanti Bankasi", "Akbank", "HALKBANK", "Ekstre"}

\* re.findall(pattern, word, re.IGNORECASE): the <<pattern, word>> pairs with
\* one occurrence; every other pair has none
PatternHits ==
    { <<"Garanti\\s+BBVA", "Garanti BBVA">>,
      <<"Garanti\\s+Bankasi", "T. Garanti Bankasi">>,
      <<"T\\.\\s*Garanti", "T. Garanti Bankasi">>,
      <<"Akbank", "Akbank">>,
      <<"AKBANK", "Akbank">>,
      <<"Halkbank", "HALKBANK">> }

\* len(re.findall(pattern, text, re.IGNORECASE))
Found(pattern, t) ==
    Cardinality({k \in 1..Len(t) : <<pattern, t[k]>> \in PatternHits})

\* re.search(pattern, text, re.IGNORECASE) is not None
Search(pattern, t) == \E k \in 1..Len(t) : <<pattern, t[k]>> \in PatternHits

\* whether some pattern of BANK_PATTERNS[b] is found in the text
BankMatches(b, t) ==
    \E q \in 1..Len(BANK_PATTERNS[b].patterns) :
        Search(BANK_PATTERNS[b].patterns[q], t)

\* detect_from_text: the first bank, in table order, one of whose patterns
\* is found
detect_from_text(t) ==
    IF t = <<>> THEN None
    ELSE IF \E b \in 1..Len(BANK_PATTERNS) : BankMatches(b, t)
         THEN LET b == CHOOSE b \in 1..Len(BANK_PATTERNS) :
                        /\ BankMatches(b, t)
                        /\ \A c \in 1..(b - 1) : ~BankMatches(c, t)
              IN  Some(BANK_PATTERNS[b].bank)
         ELSE None

\* `match_count` of bank b
MatchCount(b, t) ==
    SumSeq([q \in 1..Len(BANK_PATTERNS[b].patterns) |->
                Found(BANK_PATTERNS[b].patterns[q], t)])

\* `matched_patterns` of bank b
MatchedPatterns(b, t) ==
    LET ps == BANK_PATTERNS[b].patterns
        F[q \in 0..Len(ps)] ==
            IF q = 0 THEN <<>>
            ELSE IF Found(ps[q], t) > 0 THEN Append(F[q - 1], ps[q]) ELSE F[q - 1]
    IN  F[Len(ps)]

BankMatch(b, t) ==
    [bank |-> BANK_PATTERNS[b].bank, match_count |-> MatchCount(b, t),
     patterns |-> MatchedPatterns(b, t)]

\* `matches` before the sort: the banks with match_count > 0, in table order
MatchesOf(t) ==
    LET F[b \in 0..Len(BANK_PATTERNS)] ==
            IF b = 0 THEN <<>>
            ELSE IF MatchCount(b, t) > 0 THEN Append(F[b - 1], BankMatch(b, t))
                 ELSE F[b - 1]
    IN  F[Len(BANK_PATTERNS)]

\* matches.sort(key=match_count, reverse=True): stable, equal counts keep
\* their order
InsertByCount(sorted, m) ==
    LET k == Cardinality({i \in 1..Len(sorted) :
                            sorted[i].match_count >= m.match_count})
    IN  SubSeq(sorted, 1, k) \o <<m>> \o SubSeq(sorted, k + 1, Len(sorted))

SortByCount(ms) ==
    LET F[i \in 0..Len(ms)] ==
            IF i = 0 THEN <<>> ELSE InsertByCount(F[i - 1], ms[i])
    IN  F[Len(ms)]

NoDetection == [bank |-> None, confidence |-> Ratio(0, 1), matches |-> <<>>]

\* detect_with_confidence; confidence is the pair <<best, total>>
detect_with_confidence(t) ==
    IF t = <<>> THEN NoDetection
    ELSE LET matches == SortByCount(MatchesOf(t))
             total_matches == SumSeq([i \in 1..Len(matches) |-> matches[i].match_count])
         IN  IF matches = <<>> THEN NoDetection
             ELSE [bank |-> Some(matches[1].bank),
                   confidence |-> Ratio(matches[1].match_count, total_matches),
                   matches |-> matches]

\* The state of the detector before it is called
BankIdle ==
    /\ text = <<>>
    /\ detected = None
    /\ detection = NoDetection

DetectFromText ==
    /\ pc = "bank"
    /\ detected' = detect_from_text(text)
    /\ pc' = "bank_text"
    /\ UNCHANGED <<analysisVars, catVars, extVars, pipeVars, parseVars,
                   text, detection, log>>

DetectWithConfidence ==
    /\ pc = "bank_text"
    /\ detection' = detect_with_confidence(text)
    /\ pc' = "bank_done"
    /\ UNCHANGED <<analysisVars, catVars, extVars, pipeVars, parseVars,
                   text, detected, log>>

-----------------------------------------------------------------------------
(* The response parser of extract_with_groq and categorize_with_groq.  A    *)
(* text is a list of tokens: the brackets, the comma, "1" (a scalar), "k"   *)
(* (a key with its colon), " " (white space, a line break included), the    *)
(* fence markers "<fence json>" and "<fence>" (three backquotes, with and  *)
(* without the word json) and "x" (a word of prose).                        *)

JsonTokens == {"[", "]", "{", "}", ",", "1", "k"}

\* The first position of the token in the text, 0 if it is not there
Find(ts, tok) ==
    LET ks == {k \in 1..Len(ts) : ts[k] = tok}
    IN  IF ks = {} THEN 0 ELSE CHOOSE k \in ks : \A l \in ks : k <= l

\* str.strip()
Strip(ts) ==
    LET ks == {k \in 1..Len(ts) : ts[k] # " "}
    IN  IF ks = {} THEN <<>>
        ELSE SubSeq(ts, CHOOSE k \in ks : \A l \in ks : k <= l,
                        CHOOSE k \in ks : \A l \in ks : k >= l)

\* s.split(marker)[1].split("<fence>")[0].strip(), for a text that holds the marker
BetweenFences(ts, marker) ==
    LET after == SubSeq(ts, Find(ts, marker) + 1, Len(ts))
        ends == {k \in 1..Len(after) : after[k] \in {"<fence>", "<fence json>"}}
        upto == IF ends = {} THEN Len(after)
                ELSE (CHOOSE k \in ends : \A l \in ends : k <= l) - 1
    IN  Strip(SubSeq(after, 1, upto))

\* the fence handling: the "<fence json>" branch, else the "<fence>" branch
FenceStrip(ts) ==
    IF Find(ts, "<fence json>") # 0 THEN BetweenFences(ts, "<fence json>")
    ELSE IF Find(ts, "<fence>") # 0 THEN BetweenFences(ts, "<fence>")
    ELSE ts

\* The text without its white space
Unspaced(ts) == SelectSeq(ts, LAMBDA tok : tok # " ")

\* The JSON grammar over the tokens: each operator takes the position where
\* the construct starts and gives the position after it, 0 if it is not one
RECURSIVE JsonValue(_, _), JsonElements(_, _), JsonMembers(_, _)
JsonValue(ts, i) ==
    IF i > Len(ts) THEN 0
    ELSE IF ts[i] = "1" THEN i + 1
    ELSE IF ts[i] = "[" THEN
            IF i + 1 <= Len(ts) /\ ts[i + 1] = "]" THEN i + 2
            ELSE JsonElements(ts, i + 1)
    ELSE IF ts[i] = "{" THEN
            IF i + 1 <= Len(ts) /\ ts[i + 1] = "}" THEN i + 2
            ELSE JsonMembers(ts, i + 1)
    ELSE 0

JsonElements(ts, i) ==
    LET j == JsonValue(ts, i)
    IN  IF j = 0 \/ j > Len(ts) THEN 0
        ELSE IF ts[j] = "]" THEN j + 1
        ELSE IF ts[j] = "," THEN JsonElements(ts, j + 1)
        ELSE 0

JsonMembers(ts, i) ==
    IF i > Len(ts) \/ ts[i] # "k" THEN 0
    ELSE LET j == JsonValue(ts, i + 1)
         IN  IF j = 0 \/ j > Len(ts) THEN 0
             ELSE IF ts[j] = "}" THEN j + 1
             ELSE IF ts[j] = "," THEN JsonMembers(ts, j + 1)
             ELSE 0

\* json.loads: the structure, written as the text without white space, or
\* None for JSONDecodeError
Loads(ts) ==
    LET t == Unspaced(ts)
    IN  IF t # <<>> /\ JsonValue(t, 1) = Len(t) + 1 THEN Some(t) ELSE None

\* s.replace("," + close, close): every comma directly before `close` goes
ReplaceCommaBefore(ts, close) ==
    LET F[k \in 0..Len(ts)] ==
            IF k = 0 THEN <<>>
            ELSE IF ts[k] = "," /\ k < Len(ts) /\ ts[k + 1] = close THEN F[k - 1]
                 ELSE Append(F[k - 1], ts[k])
    IN  F[Len(ts)]

\* result.replace(",}", "}").replace(",]", "]")
StripTrailingCommas(ts) == ReplaceCommaBefore(ReplaceCommaBefore(ts, "}"), "]")

\* re.search(open + ".*" + close, result, re.DOTALL): from the first `open`
\* to the last `close` after it, None without a match
JsonMatch(ts, open, close) ==
    LET i == Find(ts, open)
        js == {j \in 1..Len(ts) : j > i /\ ts[j] = close}
    IN  IF i = 0 \/ js = {} THEN None
        ELSE Some(SubSeq(ts, i, CHOOSE j \in js : \A l \in js : j >= l))

Parsed(value) == [ok |-> TRUE, value |-> value]
Raised == [ok |-> FALSE, value |-> <<>>]

\* the recovery ladder shared by the two functions
ParseWithRecovery(result, open, close) ==
    LET stripped == FenceStrip(result)
        fixed == StripTrailingCommas(stripped)
        json_match == JsonMatch(fixed, open, close)
    IN  IF Loads(stripped) # None THEN Parsed(Loads(stripped)[1])
        ELSE IF Loads(fixed) # None THEN Parsed(Loads(fixed)[1])
        ELSE IF json_match # None /\ Loads(json_match[1]) # None
             THEN Parsed(Loads(json_match[1])[1])
        ELSE Raised

\* extract_with_groq, from the completion to the return
extract_with_groq(result) == ParseWithRecovery(result, "{", "}")

\* categorize_with_groq, from the completion to the return: a structure
\* that is not a list raises ValueError
categorize_with_groq(result) ==
    LET data == ParseWithRecovery(result, "[", "]")
    IN  IF data.ok /\ data.value[1] # "[" THEN Raised ELSE data

ParseResponse(eng, result) ==
    IF eng = "extract" THEN extract_with_groq(result)
    ELSE categorize_with_groq(result)

\* The state of the parser before a completion arrives
ParseIdle ==
    /\ engine = "extract"
    /\ clean = <<>>
    /\ form = "clean"
    /\ response = <<>>
    /\ parsed = Raised

ParseCompletion ==
    /\ pc = "completion"
    /\ parsed' = ParseResponse(engine, response)
    /\ pc' = "parsed"
    /\ UNCHANGED <<analysisVars, catVars, extVars, pipeVars, bankVars,
                   engine, clean, form, response, log>>

-----------------------------------------------------------------------------
(* Specification SpecBatch: one run of categorize_transactions or of        *)
(* extract_transactions_batch, the inference service answering anything     *)

\* transaction_id, amount, type of the transactions to categorize
CatKinds ==
    { <<NoId, 0 - 300, "debit">>, <<0, 0 - 300, "debit">>,
      <<1, 0 - 300, "debit">>, <<2, 500, "credit">> }

\* The list of n transactions whose k-th is of kind kd[k]
CatList(n, kd) == [k \in 1..n |-> Txn(k, kd[k][1], 1, kd[k][2], kd[k][3], None, {})]

\* transaction_id and category of the entries a response is made of: a
\* category of the taxonomy or one outside it
CatAnswers == { <<0, "Shopping">>, <<1, "Shopping">>, <<1, "Crypto">>, <<2, "Shopping">> }

\* The entries of a response, one of them with no key at all
CatEntries ==
    { CatEntry(a[1], a[2], "Electronics", Some(95), Some({"tag"})) : a \in CatAnswers }
    \cup { CatEntry(NoId, Absent, Absent, None, None) }

SeqsUpTo(S, n) == UNION { [1..m -> S] : m \in 0..n }

CatResponses == SeqsUpTo(CatEntries, Len(BatchOf(cat_txns, batch_idx + 1, batch_size)))

\* The row r as the service extracts it; scheme "row" numbers the
\* transactions by their row in the file, "chunk" by their row in the chunk
ExtractedTxn(r, first, scheme) ==
    Txn(r, IF scheme = "row" THEN r ELSE r - first + 1, 1, 0 - 300, "debit", None, {})

ChunkResults ==
    LET k == chunk_idx + 1
        first == BatchFirst(k, chunk_size)
        chunk == BatchOf(records, k, chunk_size)
    IN  { ChunkResult(m, [j \in 1..Len(chunk) |-> ExtractedTxn(chunk[j], first, scheme)]) :
            m \in {"A", "B"}, scheme \in {"row", "chunk"} }

InitBatch ==
    /\ txns = <<>>
    /\ income = <<>>
    /\ periods = <<>>
    /\ log = <<>>
    /\ BankIdle
    /\ ParseIdle
    /\ PipeIdle
    /\ \/ /\ pc = "cat_start"
          /\ \E n \in 0..MaxBatchItems : \E kd \in [1..n -> CatKinds] :
                cat_txns = CatList(n, kd)
          /\ batch_size \in 1..MaxBatchSize
          /\ period_context \in {None, Some(15000)}
          /\ batch_idx = 0
          /\ categorized = <<>>
          /\ categorizations = <<>>
          /\ batch_failed = FALSE
          /\ batch_context = None
          /\ ExtIdle
       \/ /\ pc = "ext_loop"
          /\ CatIdle
          /\ records \in {[j \in 1..n |-> j] : n \in 0..MaxBatchItems}
          /\ chunk_size \in 1..MaxBatchSize
          /\ chunk_idx = 0
          /\ all_transactions = <<>>
          /\ combined_result = InitialCombinedResult
          /\ chunk_results = <<>>

NextBatch ==
    \/ CatStart
    \/ \E resp \in CatResponses : CategorizeBatchOk(resp)
    \/ CategorizeBatchRaise
    \/ \E res \in ChunkResults : ExtractChunkOk(res)
    \/ ExtractChunkRaise
    \/ ExtractReturn

SpecBatch == InitBatch /\ [][NextBatch]_vars

-----------------------------------------------------------------------------
(* Specification SpecPeriods: detect_income and group_into_periods applied *)
(* to a bounded transaction list                                           *)

PeriodDates == {3, 10, 20}

\* amount, type, balance_after of the transactions the lists are drawn from
PeriodShapes ==
    { <<15000, "credit", None>>, <<12000, "credit", Some(13000)>>,
      <<0 - 300, "debit", None>>, <<0 - 5000, "debit", None>>,
      <<300, "credit", None>> }

\* The list of n transactions whose k-th has date d[k] and shape sh[k]
TxnList(n, d, sh) == [k \in 1..n |-> Txn(k, k, d[k], sh[k][1], sh[k][2], sh[k][3], {})]

\* The sub-list of s at the positions in I, in order
SubList(s, I) == SelectSeq(s, LAMBDA t : t.ix \in I)

InitPeriods ==
    /\ pc = "start"
    /\ \E n \in 0..MaxTxn :
          \E d \in [1..n -> PeriodDates], sh \in [1..n -> PeriodShapes] :
              txns = TxnList(n, d, sh)
    /\ income = <<>>
    /\ periods = <<>>
    /\ CatIdle
    /\ ExtIdle
    /\ log = <<>>
    /\ BankIdle
    /\ ParseIdle
    /\ PipeIdle

\* Step 5a of extract_from_file: income_transactions = detect_income(transactions)
DetectIncome ==
    /\ pc = "start"
    /\ income' = detect_income(txns)
    /\ pc' = "income"
    /\ UNCHANGED <<bankVars, parseVars, pipeVars, txns, periods, catVars, extVars, log>>

\* A caller that hands group_into_periods an income list of its own choice
SupplyIncome ==
    /\ pc = "start"
    /\ \E I \in SUBSET (1..Len(txns)) : income' = SubList(txns, I)
    /\ pc' = "income"
    /\ UNCHANGED <<bankVars, parseVars, pipeVars, txns, periods, catVars, extVars, log>>

\* Step 5b: periods = group_into_periods(transactions, income_transactions)
GroupIntoPeriods ==
    /\ pc = "income"
    /\ periods' = group_into_periods(txns, income)
    /\ pc' = "grouped"
    /\ UNCHANGED <<bankVars, parseVars, pipeVars, txns, income, catVars, extVars, log>>

NextPeriods == DetectIncome \/ SupplyIncome \/ GroupIntoPeriods

SpecPeriods == InitPeriods /\ [][NextPeriods]_vars

-----------------------------------------------------------------------------
(* Claims about group_into_periods and detect_income (SpecPeriods) *)

\* How many times the dictionary with identity ix occurs in the periods' lists
Occurrences(ps, ix) ==
    Cardinality({ <<p, j>> \in (1..Len(ps)) \X (1..MaxTxn + 1) :
                    /\ j <= Len(ps[p].transactions)
                    /\ ps[p].transactions[j].ix = ix })

\* C1: every input transaction of group_into_periods appears in exactly one
\* returned period's transactions list: none is missing, none appears twice.
C1_PeriodsPartition ==
    pc = "grouped" =>
        \A k \in 1..Len(txns) : Occurrences(periods, txns[k].ix) = 1

\* The example of the specification: a 15000 credit on day 3, a 300 debit on
\* day 10 and a 5000 debit on day 20, with the income floor 5000
ExampleTxns ==
    << Txn(1, 1, 3, 15000, "credit", None, {}),
       Txn(2, 2, 10, 0 - 300, "debit", None, {}),
       Txn(3, 3, 20, 0 - 5000, "debit", None, {}) >>

\* C3: on the example, detect_income returns the 15000 credit with confidence
\* at least 0.8 and group_into_periods returns period-1, starting on day 3,
\* holding all three transactions, with total_expenses 5300 and
\* remaining_from_income 9700.
C3_ExampleScenario ==
    (pc = "grouped" /\ txns = ExampleTxns /\ income = detect_income(ExampleTxns)) =>
        /\ Len(income) = 1
        /\ income[1].ix = 1
        /\ income[1].income_confidence # None
        /\ income[1].income_confidence[1] >= 80
        /\ \E p \in 1..Len(periods) :
              /\ periods[p].period_id = "period-1"
              /\ periods[p].start_date = Some(3)
              /\ {periods[p].transactions[j].ix :
                     j \in 1..Len(periods[p].transactions)} = {1, 2, 3}
              /\ periods[p].total_expenses = 5300
              /\ periods[p].remaining_from_income = Some(9700)

\* The identities of the dictionaries of the list s
IxsOf(s) == {s[j].ix : j \in 1..Len(s)}

\* Whether the list s is in date order
InDateOrder(s) == \A j \in 1..(Len(s) - 1) : ParseDate(s[j]) <= ParseDate(s[j + 1])

\* C18: with at least one income, the pre-income period exists only if some
\* transaction is dated before the first income and holds exactly those;
\* period-i starts at the date of the i-th income in date order and holds
\* that income plus the transactions dated after it and before the next
\* income, or, for the last income, all those dated after it, the last
\* transaction's date included; every period's list is in date order.
C18_PeriodMembership ==
    (pc = "grouped" /\ income # <<>>) =>
        LET si == SortedByDate(income)
            pre == {k \in 1..Len(txns) : ParseDate(txns[k]) < ParseDate(si[1])}
            off == IF pre = {} THEN 0 ELSE 1
            after(i) == {k \in 1..Len(txns) :
                            /\ ParseDate(txns[k]) > ParseDate(si[i])
                            /\ i < Len(si) => ParseDate(txns[k]) < ParseDate(si[i + 1])}
        IN  /\ Len(periods) = off + Len(si)
            /\ pre # {} =>
                  /\ periods[1].period_id = "pre-income"
                  /\ IxsOf(periods[1].transactions) = {txns[k].ix : k \in pre}
                  /\ Len(periods[1].transactions) = Cardinality(pre)
            /\ \A i \in 1..Len(si) :
                  LET p == periods[off + i]
                  IN  /\ p.period_id = PeriodName(i)
                      /\ p.start_date = IsoDate(ParseDate(si[i]))
                      /\ IxsOf(p.transactions) =
                            {si[i].ix} \cup {txns[k].ix : k \in after(i)}
                      /\ Len(p.transactions) =
                            Cardinality({si[i].ix} \cup {txns[k].ix : k \in after(i)})
            /\ \A q \in 1..Len(periods) : InDateOrder(periods[q].transactions)

\* The number of periods that precede period-1: 1 with a pre-income period
PreIncomeOffset(ps) ==
    IF ps # <<>> /\ ps[1].period_id = "pre-income" THEN 1 ELSE 0

\* C23: the starting_balance of period-i is the balance_after of its income
\* when that is present; otherwise, for i > 1, the ending_balance of the
\* previous income period plus the income amount; otherwise (i = 1, with or
\* without a pre-income period before it) the income amount.
C23_StartingBalanceChain ==
    (pc = "grouped" /\ income # <<>>) =>
        LET si == SortedByDate(income)
            off == PreIncomeOffset(periods)
        IN  \A i \in 1..Len(si) :
                periods[off + i].starting_balance =
                    IF si[i].balance_after # None THEN Some(si[i].balance_after[1])
                    ELSE IF i > 1
                         THEN Some(periods[off + i - 1].ending_balance[1] + Abs(si[i].amount))
                         ELSE Some(Abs(si[i].amount))

\* A pre-income period, then two incomes without balance_after: period-1
\* starts from its income amount, period-2 from the ending balance of
\* period-1 plus its income amount
C23_Witness ==
    /\ pc = "grouped"
    /\ Len(periods) = 3
    /\ periods[1].period_id = "pre-income"
    /\ periods[2].income_transaction[1].balance_after = None
    /\ periods[2].starting_balance = Some(periods[2].income_amount)
    /\ periods[3].income_transaction[1].balance_after = None
    /\ periods[3].starting_balance =
          Some(periods[2].ending_balance[1] + periods[3].income_amount)
    /\ periods[3].starting_balance # Some(periods[3].income_amount)

\* C24: every period-N anchored on a credit satisfies ending_balance =
\* starting_balance - total_expenses + other_credits and
\* remaining_from_income = income_amount - total_expenses, total_expenses
\* being the absolute debit amounts of the period's list, other_credits the
\* credits of that list other than the income, and income_amount the
\* absolute amount of the income.
C24_PeriodArithmetic ==
    pc = "grouped" =>
        \A q \in 1..Len(periods) :
            LET p == periods[q]
            IN  (p.income_transaction # None
                    /\ p.income_transaction[1].transaction_type = "credit") =>
                    /\ p.income_amount = Abs(p.income_transaction[1].amount)
                    /\ p.total_expenses = DebitTotal(p.transactions)
                    /\ p.other_credits =
                          Some(CreditTotal(p.transactions) - p.income_transaction[1].amount)
                    /\ p.ending_balance =
                          Some(p.starting_balance[1] - p.total_expenses + p.other_credits[1])
                    /\ p.remaining_from_income = Some(p.income_amount - p.total_expenses)

\* A period anchored on a detected income that holds another credit
C24_Witness ==
    /\ pc = "grouped"
    /\ income = detect_income(txns)
    /\ \E q \in 1..Len(periods) :
          /\ periods[q].period_id = "period-1"
          /\ periods[q].other_credits = Some(300)
          /\ Len(periods[q].transactions) = 2
          /\ periods[q].ending_balance = Some(periods[q].starting_balance[1] + 300)

-----------------------------------------------------------------------------
(* Specification SpecIncome: detect_income applied to a bounded list with  *)
(* balances and keywords                                                    *)

MaxIncomeTxn == 2

IncomeDates == {1, 2}
IncomeAmounts == {4000, 6000, 12000, 15000}
IncomeBalances == {None, Some(13000)}
IncomeDescriptions == {{}, {"SALARY"}, {"EFT"}, {"SALARY", "EFT"}}

\* amount, type, balance_after, description
IncomeShapes ==
    { <<0 - 300, "debit", Some(1000), {}>>, <<0 - 300, "debit", Some(999), {}>> }
    \cup { <<a, "credit", b, d>> :
              a \in IncomeAmounts, b \in IncomeBalances, d \in IncomeDescriptions }

\* The list of n transactions whose k-th has date d[k] and shape sh[k]
IncomeList(n, d, sh) ==
    [k \in 1..n |-> Txn(k, k, d[k], sh[k][1], sh[k][2], sh[k][3], sh[k][4])]

InitIncome ==
    /\ pc = "start"
    /\ \E n \in 0..MaxIncomeTxn :
          \E d \in [1..n -> IncomeDates], sh \in [1..n -> IncomeShapes] :
              txns = IncomeList(n, d, sh)
    /\ income = <<>>
    /\ periods = <<>>
    /\ CatIdle
    /\ ExtIdle
    /\ log = <<>>
    /\ BankIdle
    /\ ParseIdle
    /\ PipeIdle

SpecIncome == InitIncome /\ [][DetectIncome]_vars

\* The list s with the amount of its k-th transaction replaced by a
WithAmount(s, k, a) == [s EXCEPT ![k].amount = a]

\* The confidence detect_income computes for the k-th transaction of s
ConfidenceAt(s, k) == Confidence(SortedByDate(s), s[k])
BaseConfidenceAt(s, k) == BaseConfidence(SortedByDate(s), s[k])

\* C8 as claimed: of two credits that differ only in amount, the larger never
\* receives a strictly lower income confidence.
C8_Monotone ==
    pc = "income" =>
        \A k \in 1..Len(txns) : \A a \in IncomeAmounts :
            (txns[k].transaction_type = "credit" /\ a > txns[k].amount) =>
                ConfidenceAt(WithAmount(txns, k, a), k) >= ConfidenceAt(txns, k)

\* C8 amended: of two credits that differ only in amount, the larger never
\* receives a strictly lower income confidence, unless the smaller amount
\* matches the balance increase over the preceding transaction (base 0.95)
\* and the larger does not.
C8_MonotoneUnlessBalanceMatch ==
    pc = "income" =>
        \A k \in 1..Len(txns) : \A a \in IncomeAmounts :
            ( /\ txns[k].transaction_type = "credit"
              /\ a > txns[k].amount
              /\ ~ ( /\ BaseConfidenceAt(txns, k) = 95
                     /\ BaseConfidenceAt(WithAmount(txns, k, a), k) # 95 ) ) =>
                ConfidenceAt(WithAmount(txns, k, a), k) >= ConfidenceAt(txns, k)

\* A detected credit with a non-income keyword whose larger twin scores higher
C8_Witness ==
    /\ pc = "income"
    /\ \E k \in 1..Len(txns) : \E a \in IncomeAmounts :
          /\ txns[k].transaction_type = "credit"
          /\ "EFT" \in txns[k].description
          /\ a > txns[k].amount
          /\ ConfidenceAt(txns, k) > 0
          /\ ConfidenceAt(WithAmount(txns, k, a), k) > ConfidenceAt(txns, k)
          /\ \E i \in 1..Len(income) : income[i].ix = k

\* The positions of s that detect_income takes as candidates: the credits at
\* or above the floor that the loop gives a confidence (line 157)
CandidatePositions(s) ==
    {k \in 1..Len(s) : /\ s[k].transaction_type = "credit"
                       /\ Abs(s[k].amount) >= min_amount
                       /\ ConfidenceAt(s, k) > 0}

\* The j-th largest of the amounts at the positions K of s
JthLargest(s, K, j) ==
    CHOOSE v \in {Abs(s[k].amount) : k \in K} :
        /\ Cardinality({k \in K : Abs(s[k].amount) > v}) < j
        /\ Cardinality({k \in K : Abs(s[k].amount) >= v}) >= j

\* Twice the median of the amounts at the positions K of s (K not empty)
TwiceMedian(s, K) ==
    LET n == Cardinality(K)
    IN  IF n % 2 = 1 THEN 2 * JthLargest(s, K, (n + 1) \div 2)
        ELSE JthLargest(s, K, n \div 2) + JthLargest(s, K, (n \div 2) + 1)

\* amount >= threshold, the threshold being 1.5 x the median of the
\* candidate amounts for two candidates or more, the floor otherwise
AtOrAboveThreshold(s, K, k) ==
    IF Cardinality(K) >= 2 THEN 4 * Abs(s[k].amount) >= 3 * TwiceMedian(s, K)
    ELSE Abs(s[k].amount) >= min_amount

\* C20: detect_income returns exactly the candidates (credits at or above
\* the floor) whose amount is at least the threshold, 1.5 x the median
\* candidate amount for two candidates or more and the floor otherwise,
\* together with the candidates of confidence 0.9 or more, by descending
\* amount.
C20_FinalIncomeSet ==
    pc = "income" =>
        LET K == CandidatePositions(txns)
            kept == {k \in K : AtOrAboveThreshold(txns, K, k) \/ ConfidenceAt(txns, k) >= 90}
        IN  /\ \A i \in 1..Len(income) :
                  /\ income[i].transaction_type = "credit"
                  /\ Abs(income[i].amount) >= min_amount
            /\ {income[i].ix : i \in 1..Len(income)} = kept
            /\ Len(income) = Cardinality(kept)
            /\ \A i \in 1..(Len(income) - 1) :
                  Abs(income[i].amount) >= Abs(income[i + 1].amount)

\* C21: the base confidence of a credit of at least twice the floor is 0.95
\* exactly when it has a balance_after, the preceding transaction by date has
\* one, and the balance increase is within 1.0 of the amount, the distance
\* 1.0 included; 0.85 when it has a balance_after and that match fails; 0.80
\* when it has no balance_after.
C21_BaseConfidenceBands ==
    pc = "income" =>
        \A k \in 1..Len(txns) :
            (txns[k].transaction_type = "credit" /\ Abs(txns[k].amount) >= 2 * min_amount) =>
                LET t == txns[k]
                    prev == PrevTxn(SortedByDate(txns), t)
                    matches == /\ t.balance_after # None
                               /\ prev # None
                               /\ prev[1].balance_after # None
                               /\ Abs((t.balance_after[1] - prev[1].balance_after[1])
                                        - Abs(t.amount)) <= 1
                IN  BaseConfidenceAt(txns, k) =
                        IF matches THEN 95
                        ELSE IF t.balance_after # None THEN 85 ELSE 80

\* The list s with the description of its k-th transaction replaced by d
WithDescription(s, k, d) == [s EXCEPT ![k].description = d]

\* C22: for a credit at or above the floor, adding an income keyword to the
\* description never lowers the confidence and never takes it above 0.98;
\* adding a non-income keyword never raises it, never takes a detected
\* credit below 0.3, and never turns a credit that is not a candidate
\* (confidence 0) into a candidate.
C22_KeywordAdjustment ==
    pc = "income" =>
        \A k \in 1..Len(txns) : \A d \in IncomeDescriptions :
            (txns[k].transaction_type = "credit" /\ Abs(txns[k].amount) >= min_amount) =>
                LET without == ConfidenceAt(WithDescription(txns, k, d), k)
                    income_kw == ConfidenceAt(WithDescription(txns, k, d \cup {"SALARY"}), k)
                    non_income_kw == ConfidenceAt(WithDescription(txns, k, d \cup {"EFT"}), k)
                IN  /\ income_kw >= without
                    /\ income_kw <= 98
                    /\ non_income_kw <= without
                    /\ without > 0 => non_income_kw >= 30
                    /\ without = 0 => non_income_kw = 0

-----------------------------------------------------------------------------
(* Claims about categorize_transactions and extract_transactions_batch      *)
(* (SpecBatch)                                                              *)

\* C4: after categorize_transactions every transaction's category is one of
\* the 13 top-level keys of CATEGORIES, whatever the service returned.
C4_TaxonomyClosure ==
    pc = "cat_done" =>
        \A j \in 1..Len(categorized) : categorized[j].category \in CATEGORIES

\* The positions of batch k in the transaction list
BatchPositions(k) ==
    BatchFirst(k, batch_size)..BatchLast(k, batch_size, Len(cat_txns))

IsFallback(t) ==
    /\ t.category = "Other"
    /\ t.subcategory = "Uncategorized"
    /\ t.category_confidence = Some(0)
    /\ t.tags = Some({})

\* The entry applied to the transaction at position p of a batch whose call
\* returned resp: the entry with the transaction's id (the last one if
\* several), else the entry at position p, else none.  A missing id equals
\* no id; with truthy = TRUE the id 0 (or "") is matched by position only.
EntryFor(txn, p, resp, truthy) ==
    LET same == {j \in 1..Len(resp) : resp[j].transaction_id = txn.transaction_id}
    IN  IF /\ txn.transaction_id # NoId
           /\ ~(truthy /\ txn.transaction_id = 0)
           /\ same # {}
        THEN Some(resp[MaxOf(same)])
        ELSE IF p <= Len(resp) THEN Some(resp[p])
        ELSE None

Follows(t, e) ==
    IF e = None THEN IsFallback(t)
    ELSE /\ t.category = (IF e[1].category = Absent THEN "Other" ELSE e[1].category)
         /\ t.subcategory = (IF e[1].subcategory = Absent THEN "Uncategorized"
                             ELSE e[1].subcategory)
         /\ t.category_confidence = (IF e[1].confidence = None THEN Some(50)
                                     ELSE e[1].confidence)

\* The transaction t carries what the code's matching gives it
FollowsMatching(t, p, resp) == Follows(t, EntryFor(t, p, resp, TRUE))

\* C5: when the inference call of batch k raises the run goes on, every
\* transaction of batch k gets Other / Uncategorized / 0.0 / no tags, no
\* transaction of another batch changes, and a batch whose call succeeds,
\* also after a failed one, gets the categories returned for it.
C5_BatchFailureContained ==
    [][ (pc = "cat_loop" /\ batch_idx' = batch_idx + 1) =>
          /\ pc' = (IF batch_idx' = TotalBatches(Len(cat_txns), batch_size)
                    THEN "cat_done" ELSE "cat_loop")
          /\ Len(cat_txns') = Len(cat_txns)
          /\ \A j \in 1..Len(cat_txns) :
                IF j \in BatchPositions(batch_idx')
                THEN /\ cat_txns'[j].ix = cat_txns[j].ix
                     /\ IF batch_failed' THEN IsFallback(cat_txns'[j])
                        ELSE FollowsMatching(cat_txns'[j],
                                 j - BatchFirst(batch_idx', batch_size) + 1,
                                 categorizations')
                ELSE cat_txns'[j] = cat_txns[j]
          /\ categorized' =
                categorized \o BatchOf(cat_txns', batch_idx', batch_size)
      ]_vars

\* A later batch has failed and an earlier batch keeps the category returned
C5_Witness ==
    /\ batch_failed
    /\ batch_idx >= 2
    /\ categorized[1].category = "Shopping"
    /\ IsFallback(Last(categorized))
    /\ pc = "cat_loop"

CountOf(s, x) == Cardinality({i \in 1..Len(s) : s[i] = x})

\* C6: in both loops every inference call but the last is followed by the
\* delay, after a failed batch too: no two calls are adjacent, and a run
\* over B batches makes B calls and B - 1 delays.
C6_InterBatchDelay ==
    /\ \A i \in 1..(Len(log) - 1) : log[i] = "call" => log[i + 1] = "sleep"
    /\ \A i \in 1..(Len(log) - 1) : log[i] = "sleep" => log[i + 1] = "call"
    /\ (pc = "cat_done" /\ Len(cat_txns) > 0) =>
          /\ CountOf(log, "call") = TotalBatches(Len(cat_txns), batch_size)
          /\ CountOf(log, "sleep") = TotalBatches(Len(cat_txns), batch_size) - 1
    /\ (pc = "ext_done" /\ Len(records) > 0) =>
          /\ CountOf(log, "call") = TotalBatches(Len(records), chunk_size)
          /\ CountOf(log, "sleep") = TotalBatches(Len(records), chunk_size) - 1

\* A batch that is not the last has just failed, and the delay was made
C6_Witness ==
    /\ pc = "cat_loop"
    /\ batch_failed
    /\ batch_idx = 2
    /\ log = <<"call", "sleep", "call", "sleep">>

\* C7: in a batch whose call succeeded every transaction gets the entry
\* whose transaction_id equals its own if there is one, else the entry at its
\* position in the batch if the response is that long, else Other /
\* Uncategorized / 0.
C7_ResponseMatching ==
    (batch_idx >= 1 /\ ~batch_failed) =>
        \A j \in BatchPositions(batch_idx) :
            LET p == j - BatchFirst(batch_idx, batch_size) + 1
            IN  Follows(cat_txns[j], EntryFor(cat_txns[j], p, categorizations, FALSE))

\* The transactions of the chunks that returned, in chunk order
ReturnedTransactions(results) ==
    Flatten([k \in 1..Len(results) |->
                IF results[k] = None THEN <<>> ELSE results[k][1].transactions])

\* `chunks` (line 254), concatenated
ChunksConcatenated(rs, size) ==
    Flatten([k \in 1..TotalBatches(Len(rs), size) |-> BatchOf(rs, k, size)])

\* C15: in what extract_transactions_batch returns, bank_name,
\* account_number, statement_period_start and currency are those of the
\* first chunk's result (the initial values if that chunk raised),
\* statement_period_end and closing_balance those of the last chunk's result
\* (the initial values if that chunk raised), transactions is the
\* concatenation in chunk order of the transactions of the chunks; and the
\* chunks concatenated are the records, each record in exactly one chunk.
C15_MergePolicy ==
    (pc = "ext_done" /\ Len(records) > 0) =>
        LET first == IF chunk_results[1] = None THEN InitialCombinedResult
                     ELSE chunk_results[1][1]
            last == IF Last(chunk_results) = None THEN InitialCombinedResult
                    ELSE Last(chunk_results)[1]
        IN  /\ combined_result.bank_name = first.bank_name
            /\ combined_result.account_number = first.account_number
            /\ combined_result.statement_period_start = first.statement_period_start
            /\ combined_result.currency = first.currency
            /\ combined_result.statement_period_end = last.statement_period_end
            /\ combined_result.closing_balance = last.closing_balance
            /\ combined_result.transactions = ReturnedTransactions(chunk_results)
            /\ ChunksConcatenated(records, chunk_size) = records
            /\ \A k \in 1..Len(chunk_results) :
                  chunk_results[k] # None =>
                      [j \in 1..Len(chunk_results[k][1].transactions) |->
                          chunk_results[k][1].transactions[j].ix]
                        = BatchOf(records, k, chunk_size)

\* Three chunks whose results differ have all returned, and the call has too
C15_Witness ==
    /\ pc = "ext_done"
    /\ Len(chunk_results) = 3
    /\ \A k \in 1..3 : chunk_results[k] # None
    /\ chunk_results[1][1].bank_name = "A"
    /\ chunk_results[2][1].bank_name = "B"
    /\ chunk_results[3][1].bank_name = "A"
    /\ chunk_results[2][1].closing_balance # chunk_results[3][1].closing_balance

\* C16: a chunk whose extraction raises contributes no transaction, every
\* later chunk is still attempted exactly once, the call returns, and the
\* returned transactions are those of the chunks that returned, in chunk
\* order; the first and the last chunk are no exception.
C16_ChunkFailureSkipped ==
    /\ pc \in {"ext_loop", "ext_done"} =>
          /\ Len(chunk_results) = chunk_idx
          /\ CountOf(log, "call") = chunk_idx
          /\ all_transactions = ReturnedTransactions(chunk_results)
    /\ pc = "ext_done" =>
          /\ Len(chunk_results) = TotalBatches(Len(records), chunk_size)
          /\ combined_result.transactions = ReturnedTransactions(chunk_results)
          /\ \A k \in 1..Len(chunk_results) :
                chunk_results[k] = None =>
                    \A j \in 1..Len(combined_result.transactions) :
                        combined_result.transactions[j].ix
                            \notin {BatchOf(records, k, chunk_size)[i] :
                                        i \in 1..Len(BatchOf(records, k, chunk_size))}

\* The first and the last of three chunks raised, the middle one returned,
\* and the call has returned its transactions
C16_Witness ==
    /\ pc = "ext_done"
    /\ Len(chunk_results) = 3
    /\ chunk_results[1] = None
    /\ chunk_results[2] # None
    /\ chunk_results[3] = None
    /\ combined_result.transactions = chunk_results[2][1].transactions
    /\ combined_result.transactions # <<>>

\* C19: with a period context, the total_expenses_so_far of batch k's prompt
\* is the sum of the absolute debit amounts of the transactions of batches
\* 1..k-1 and of no transaction of batch k, a shorter final batch included;
\* for batch 1 it is 0.
C19_ExpensesOfPriorBatches ==
    (pc \in {"cat_loop", "cat_done"} /\ batch_idx >= 1 /\ period_context # None) =>
        batch_context =
            Some(DebitTotal(SubSeq(cat_txns, 1, (batch_idx - 1) * batch_size)))

-----------------------------------------------------------------------------
(* Steps 5c-5e of TransactionExtractor.extract_from_file (main.py)          *)

MinOf(S) == CHOOSE x \in S : \A y \in S : x <= y

\* batch_size=50 (line 210): a period of the model is one batch
period_batch_size == 50

\* One iteration of the loop of step 5c (lines 195-219) for a period whose
\* categorization call returned resp
CategorizePeriodOk(resp) ==
    /\ pc = "grouped"
    /\ p_idx < Len(periods)
    /\ LET period_txns == periods[p_idx + 1].transactions
           total_batches == TotalBatches(Len(period_txns), period_batch_size)
           out == MergeBatch(BatchOf(period_txns, 1, period_batch_size), resp)
       IN  /\ period_txns # <<>>
           /\ periods' = [periods EXCEPT ![p_idx + 1].transactions = out]
           /\ all_categorized' = all_categorized \o out
           /\ log' = log \o <<"call">> \o SleepAfterBatch(1, total_batches)
    /\ p_idx' = p_idx + 1
    /\ UNCHANGED <<bankVars, parseVars, pc, txns, income, catVars, extVars, validation_results,
                   suspicious_by_period, r_idx, suspicious_list, re_categorized,
                   recat_outcome>>

\* The same iteration when the categorization call raises
CategorizePeriodRaise ==
    /\ pc = "grouped"
    /\ p_idx < Len(periods)
    /\ LET period_txns == periods[p_idx + 1].transactions
           total_batches == TotalBatches(Len(period_txns), period_batch_size)
           out == FallbackBatch(BatchOf(period_txns, 1, period_batch_size))
       IN  /\ period_txns # <<>>
           /\ periods' = [periods EXCEPT ![p_idx + 1].transactions = out]
           /\ all_categorized' = all_categorized \o out
           /\ log' = log \o <<"call">> \o SleepAfterFailedBatch(1, total_batches)
    /\ p_idx' = p_idx + 1
    /\ UNCHANGED <<bankVars, parseVars, pc, txns, income, catVars, extVars, validation_results,
                   suspicious_by_period, r_idx, suspicious_list, re_categorized,
                   recat_outcome>>

\* Step 5d (lines 226-228): validation_results = validate_periods(periods)
ValidatePeriods ==
    /\ pc = "grouped"
    /\ p_idx = Len(periods)
    /\ validation_results' = validate_periods(periods)
    /\ pc' = "validated"
    /\ UNCHANGED <<bankVars, parseVars, analysisVars, catVars, extVars, p_idx, all_categorized,
                   suspicious_by_period, r_idx, suspicious_list, re_categorized,
                   recat_outcome, log>>

\* Lines 246-249: the first transaction of the list with that id, if any
FirstWithId(ts, id) ==
    LET m == {k \in 1..Len(ts) : ts[k].transaction_id = id}
    IN  IF m = {} THEN <<>> ELSE <<ts[MinOf(m)]>>

\* The keys of suspicious_by_period in insertion order (lines 239-241)
RECURSIVE PeriodIdsOf(_)
PeriodIdsOf(suspicious) ==
    IF suspicious = <<>> THEN <<>>
    ELSE LET ids == PeriodIdsOf(Front(suspicious))
             id == Last(suspicious).period_id
         IN  IF \E k \in 1..Len(ids) : ids[k] = id THEN ids ELSE Append(ids, id)

\* suspicious_by_period[period_id] (lines 238-249)
SuspiciousTxns(ps, period_id, suspicious) ==
    Flatten([k \in 1..Len(suspicious) |->
        IF suspicious[k].period_id # period_id THEN <<>>
        ELSE Flatten([q \in 1..Len(ps) |->
                IF ps[q].period_id = period_id
                THEN FirstWithId(ps[q].transactions, suspicious[k].transaction_id)
                ELSE <<>>])])

SuspiciousByPeriod(ps, suspicious) ==
    LET ids == PeriodIdsOf(suspicious)
    IN  [k \in 1..Len(ids) |->
            [period_id |-> ids[k],
             suspicious_list |-> SuspiciousTxns(ps, ids[k], suspicious)]]

\* Lines 232-249; with nothing suspicious step 5e is skipped
GroupSuspicious ==
    /\ pc = "validated"
    /\ suspicious_by_period' =
          SuspiciousByPeriod(periods, validation_results.suspicious_transactions)
    /\ pc' = IF validation_results.suspicious_transactions = <<>>
             THEN "assembled" ELSE "recat"
    /\ UNCHANGED <<bankVars, parseVars, analysisVars, catVars, extVars, p_idx, all_categorized,
                   validation_results, r_idx, suspicious_list, re_categorized,
                   recat_outcome, log>>

ReplaceFirst(ts, id, new) ==
    LET m == {k \in 1..Len(ts) : ts[k].transaction_id = id}
    IN  IF m = {} THEN ts ELSE [ts EXCEPT ![MinOf(m)] = new]

\* Lines 261-271: the pair of the period's list and of the flat list after
\* the records of result are written back
RECURSIVE WriteBack(_, _, _)
WriteBack(period_txns, flat, result) ==
    IF result = <<>> THEN <<period_txns, flat>>
    ELSE LET prev == WriteBack(period_txns, flat, Front(result))
             recat_txn == Last(result)
             txn_id == recat_txn.transaction_id
         IN  IF FirstWithId(prev[1], txn_id) = <<>> THEN prev
             ELSE <<ReplaceFirst(prev[1], txn_id, recat_txn),
                    ReplaceFirst(prev[2], txn_id, recat_txn)>>

\* period = next((p for p in periods if p.get('period_id') == period_id), None)
PeriodIndex(ps, period_id) == MinOf({q \in 1..Len(ps) : ps[q].period_id = period_id})

\* One iteration of the loop of step 5e (lines 252-271), the inference
\* service behaving as outcome says
Recategorize(outcome) ==
    /\ pc = "recat"
    /\ r_idx < Len(suspicious_by_period)
    /\ LET item == suspicious_by_period[r_idx + 1]
           q == PeriodIndex(periods, item.period_id)
           result == re_categorize_suspicious(item.suspicious_list, outcome)
           written == WriteBack(periods[q].transactions, all_categorized, result)
       IN  /\ suspicious_list' = item.suspicious_list
           /\ re_categorized' = result
           /\ periods' = [periods EXCEPT ![q].transactions = written[1]]
           /\ all_categorized' = written[2]
           /\ log' = log \o (IF item.suspicious_list = <<>> THEN <<>> ELSE <<"call">>)
    /\ recat_outcome' = outcome.kind
    /\ r_idx' = r_idx + 1
    /\ pc' = IF r_idx + 1 = Len(suspicious_by_period) THEN "assembled" ELSE "recat"
    /\ UNCHANGED <<bankVars, parseVars, txns, income, catVars, extVars, p_idx, validation_results,
                   suspicious_by_period>>

\* Lines 291-297: datetime.now(datetime.UTC) with `from datetime import
\* datetime` raises AttributeError, and extract_from_file raises
AddFileMetadata ==
    /\ pc = "assembled"
    /\ pc' = "raised"
    /\ UNCHANGED <<bankVars, parseVars, analysisVars, catVars, extVars, pipeVars, log>>

-----------------------------------------------------------------------------
(* Specification SpecPipeline: steps 5a-5e of one extract_from_file run on  *)
(* the transactions the extraction step returned                            *)

PipeDates == {3, 10, 20}

\* amount, type, balance_after
PipeShapes ==
    { <<15000, "credit", None>>, <<0 - 300, "debit", None>>, <<0 - 9000, "debit", None>> }

\* A response that gives every transaction of the batch, by its id, category c
AllAs(batch, c) ==
    [k \in 1..Len(batch) |->
        CatEntry(batch[k].transaction_id, c, "Electronics", Some(95), Some({"tag"}))]

\* What the service may answer for the period the loop is at
PipeResponses ==
    IF p_idx < Len(periods)
    THEN { AllAs(periods[p_idx + 1].transactions, "Shopping"),
           Front(AllAs(periods[p_idx + 1].transactions, "Housing")) }
    ELSE {}

\* The category the service proposes for a suspicious transaction
NewCategory(t) == IF t.ix % 2 = 1 THEN "Housing" ELSE "Transportation"

EntryOf(t) ==
    RecatEntry(TRUE, t.transaction_id, NewCategory(t), "Rent", Some(90), "rent")

Reverse(s) == [k \in 1..Len(s) |-> s[Len(s) + 1 - k]]

\* What the service may do in the re-categorization call the loop is at
RecatOutcomes ==
    IF r_idx >= Len(suspicious_by_period) THEN {} ELSE
    LET ts == suspicious_by_period[r_idx + 1].suspicious_list
        in_order == [k \in 1..Len(ts) |-> EntryOf(ts[k])]
    IN  { RecatOutcome(kind, <<>>) : kind \in {"raise", "no_json", "bad_json", "list"} }
        \cup { RecatOutcome("list", in_order), RecatOutcome("list", Reverse(in_order)),
               RecatOutcome("list", <<RecatEntry(FALSE, NoId, Absent, Absent, None, Absent)>>),
               RecatOutcome("list", <<RecatEntry(TRUE, NoId, Absent, Absent, None, Absent)>>) }

\* The chunk sizes of the extraction step: the service numbers the
\* transactions of each chunk from 1, so two transactions of different chunks
\* share an id; with the default size of 30 the lists of the model are one chunk
PipeChunkSizes == {2, 30}

\* The list ts with the ids the extraction of chunks of size c gives
WithChunkIds(ts, c) ==
    [k \in 1..Len(ts) |-> [ts[k] EXCEPT !.transaction_id = ((k - 1) % c) + 1]]

\* What follows the n transactions of a statement: nothing, or a last row, a
\* small debit on day 25, after every day of PipeDates
PipeClosings(n) ==
    { <<>>, << Txn(n + 1, n + 1, 25, 0 - 300, "debit", None, {}) >> }

\* `if transactions:` (line 178): the steps run on a non-empty list
InitPipeline ==
    /\ pc = "start"
    /\ \E n \in 1..MaxTxn :
          \E d \in [1..n -> PipeDates], sh \in [1..n -> PipeShapes],
             c \in PipeChunkSizes, closing \in PipeClosings(n) :
              txns = WithChunkIds(TxnList(n, d, sh) \o closing, c)
    /\ income = <<>>
    /\ periods = <<>>
    /\ CatIdle
    /\ ExtIdle
    /\ log = <<>>
    /\ BankIdle
    /\ ParseIdle
    /\ PipeIdle

NextPipeline ==
    \/ DetectIncome
    \/ GroupIntoPeriods
    \/ \E resp \in PipeResponses : CategorizePeriodOk(resp)
    \/ CategorizePeriodRaise
    \/ ValidatePeriods
    \/ GroupSuspicious
    \/ \E outcome \in RecatOutcomes : Recategorize(outcome)
    \/ AddFileMetadata

SpecPipeline == InitPipeline /\ [][NextPipeline]_vars

-----------------------------------------------------------------------------
(* Specification SpecValidate: validate_periods called on categorized       *)
(* periods of the shapes group_into_periods produces                        *)

\* amount, type, category of the transactions of a period
ValKinds ==
    { <<0 - 600, "debit", "Shopping">>, <<0 - 600, "debit", Absent>>,
      <<0 - 500, "debit", "Shopping">>, <<600, "credit", "Shopping">>,
      <<0 - 300, "debit", "Food">> }

ValIncomes == {0, 1000}

ValLayouts ==
    { <<"period-1">>, <<"no-income">>, <<"pre-income", "period-1">>,
      <<"period-1", "period-2">> }

\* The transactions of the q-th period, of the kinds kd
ValTxns(q, kd) ==
    [k \in 1..Len(kd) |->
        [Txn(10 * q + k, 10 * q + k, 1, kd[k][1], kd[k][2], None, {})
            EXCEPT !.category = kd[k][3]]]

\* A period dictionary with the keys validate_periods reads
ValPeriod(period_id, income_amount, ts) ==
    [NoIncomePeriod(ts) EXCEPT
        !.period_id = period_id,
        !.income_amount = IF period_id \in {"pre-income", "no-income"} THEN 0
                          ELSE income_amount,
        !.remaining_from_income =
            IF period_id \in {"pre-income", "no-income"} THEN None
            ELSE Some(income_amount - DebitTotal(ts))]

InitValidate ==
    /\ pc = "grouped"
    /\ txns = <<>>
    /\ income = <<>>
    /\ \E layout \in ValLayouts :
          \E inc \in [1..Len(layout) -> ValIncomes],
             kds \in [1..Len(layout) -> SeqsUpTo(ValKinds, MaxValTxn)] :
              periods = [q \in 1..Len(layout) |->
                            ValPeriod(layout[q], inc[q], ValTxns(q, kds[q]))]
    /\ CatIdle
    /\ ExtIdle
    /\ p_idx = Len(periods)
    /\ all_categorized = Flatten([q \in 1..Len(periods) |-> periods[q].transactions])
    /\ validation_results = NoValidationResults
    /\ suspicious_by_period = <<>>
    /\ r_idx = 0
    /\ suspicious_list = <<>>
    /\ re_categorized = <<>>
    /\ recat_outcome = "none"
    /\ log = <<>>
    /\ BankIdle
    /\ ParseIdle

SpecValidate == InitValidate /\ [][ValidatePeriods]_vars

-----------------------------------------------------------------------------
(* Claims about validate_periods (SpecValidate)                             *)

\* The entries of the suspicious list made for the transaction t of period
EntriesFor(period, t) ==
    SelectSeq(validation_results.suspicious_transactions,
              LAMBDA e : e.period_id = period.period_id
                         /\ e.transaction_id = t.transaction_id)

\* C9: validate_periods lists a transaction as suspicious exactly when it is
\* a debit of a period with nonzero income whose absolute amount is more than
\* half the income, and the entry carries amount / income_amount and the
\* transaction's current category.
C9_SingleTransactionRule ==
    pc = "validated" =>
        /\ \A q \in 1..Len(periods) : \A k \in 1..Len(periods[q].transactions) :
              LET period == periods[q]
                  t == period.transactions[k]
                  entries == EntriesFor(period, t)
              IN  IF /\ t.transaction_type = "debit"
                     /\ period.income_amount # 0
                     /\ 2 * Abs(t.amount) > period.income_amount
                  THEN /\ Len(entries) = 1
                       /\ entries[1].amount = Abs(t.amount)
                       /\ entries[1].income_amount = period.income_amount
                       /\ entries[1].ratio = <<Abs(t.amount), period.income_amount>>
                       /\ entries[1].current_category =
                             (IF t.category = Absent THEN "Unknown" ELSE t.category)
                  ELSE entries = <<>>
        /\ \A j \in 1..Len(validation_results.suspicious_transactions) :
              \E q \in 1..Len(periods) : \E k \in 1..Len(periods[q].transactions) :
                  /\ validation_results.suspicious_transactions[j].period_id
                        = periods[q].period_id
                  /\ validation_results.suspicious_transactions[j].transaction_id
                        = periods[q].transactions[k].transaction_id

\* A period with income 1000 and a single debit of 600, which is flagged
C9_Witness ==
    /\ pc = "validated"
    /\ Len(periods) = 1
    /\ periods[1].income_amount = 1000
    /\ Len(periods[1].transactions) = 1
    /\ periods[1].transactions[1].transaction_type = "debit"
    /\ periods[1].transactions[1].amount = 0 - 600
    /\ periods[1].transactions[1].category = "Shopping"
    /\ Len(validation_results.suspicious_transactions) = 1
    /\ validation_results.suspicious_transactions[1].ratio = <<600, 1000>>
    /\ validation_results.suspicious_transactions[1].current_category = "Shopping"

-----------------------------------------------------------------------------
(* Claims about steps 5c-5e of extract_from_file (SpecPipeline)             *)

\* C2: the final transactions list holds every transaction the extraction
\* step returned exactly once.
C2_NoTransactionDeleted ==
    pc = "assembled" =>
        /\ Len(all_categorized) = Len(txns)
        /\ \A k \in 1..Len(txns) :
              Cardinality({j \in 1..Len(all_categorized) :
                              all_categorized[j].ix = txns[k].ix}) = 1

RecatFailures == {"raise", "no_json", "bad_json"}

\* No two transactions of the list share a transaction_id
DistinctIds(ts) ==
    \A j, k \in 1..Len(ts) : ts[j].transaction_id = ts[k].transaction_id => j = k

\* C10: when the re-categorization call raises or its response does not
\* parse, re_categorize_suspicious returns its argument unchanged, with no
\* re_categorized marker, nothing changes in the periods (nor in the flat list
\* when the ids are distinct), and the run goes on with the next period or
\* with the assembly of the result.
C10_RecatFailureKeepsData ==
    [][ (pc = "recat" /\ r_idx' = r_idx + 1 /\ recat_outcome' \in RecatFailures) =>
          /\ suspicious_list' = suspicious_by_period[r_idx + 1].suspicious_list
          /\ re_categorized' = suspicious_list'
          /\ \A i \in 1..Len(re_categorized') : ~re_categorized'[i].re_categorized
          /\ periods' = periods
          /\ DistinctIds(all_categorized) => all_categorized' = all_categorized
          /\ pc' = (IF r_idx' = Len(suspicious_by_period) THEN "assembled" ELSE "recat")
      ]_vars

\* A failed re-categorization call after which the result is assembled with
\* the suspicious transaction as it was categorized
C10_Witness ==
    /\ pc = "assembled"
    /\ recat_outcome \in RecatFailures
    /\ re_categorized # <<>>
    /\ re_categorized = suspicious_list
    /\ re_categorized[1].category = "Shopping"
    /\ \E j \in 1..Len(all_categorized) : all_categorized[j] = re_categorized[1]

\* The transaction t of the period is one that validate_periods flags
Flagged(period, t) == ~SkipsPeriod(period) /\ IsSuspicious(t, period.income_amount)

\* The index of the period that holds the transaction ix, 0 if there is none
PeriodOfIx(ps, ix) ==
    LET qs == {q \in 1..Len(ps) :
                  \E k \in 1..Len(ps[q].transactions) : ps[q].transactions[k].ix = ix}
    IN  IF qs = {} THEN 0 ELSE MinOf(qs)

\* C11: a step of the write-back of step 5e changes only flagged
\* transactions, in the period's list and in the flat list alike: both lists
\* keep their length and the transaction at each position, no date, amount or
\* type changes, a transaction that is not flagged is left as it was, and a
\* flagged transaction the response has an entry for gets the marker in both.
C11_WriteBackFrame ==
    [][ (pc = "recat" /\ r_idx' = r_idx + 1) =>
          /\ Len(all_categorized') = Len(all_categorized)
          /\ \A j \in 1..Len(all_categorized) :
                LET old == all_categorized[j]
                    new == all_categorized'[j]
                    q == PeriodOfIx(periods, old.ix)
                IN  /\ new.ix = old.ix
                    /\ new.date = old.date
                    /\ new.amount = old.amount
                    /\ new.transaction_type = old.transaction_type
                    /\ new # old => Flagged(periods[q], old)
          /\ \A q \in 1..Len(periods) :
                /\ Len(periods'[q].transactions) = Len(periods[q].transactions)
                /\ \A k \in 1..Len(periods[q].transactions) :
                      LET old == periods[q].transactions[k]
                          new == periods'[q].transactions[k]
                      IN  /\ new.ix = old.ix
                          /\ new # old => Flagged(periods[q], old)
                          /\ \E j \in 1..Len(all_categorized') :
                                all_categorized'[j] = new
      ]_vars

\* C12: a run whose extraction step succeeded never raises to its caller,
\* whatever the categorization calls, the validator and the
\* re-categorization calls did.
C12_RunReturns == pc # "raised"

\* C17: in the output of a run no two transactions share a transaction_id,
\* and through income detection, period grouping, categorization and
\* re-categorization every transaction keeps the id the extraction gave it.
C17_IdsUniqueAndStable ==
    /\ pc = "assembled" => DistinctIds(all_categorized)
    /\ \A j \in 1..Len(all_categorized) :
          \E k \in 1..Len(txns) :
              /\ txns[k].ix = all_categorized[j].ix
              /\ txns[k].transaction_id = all_categorized[j].transaction_id
    /\ \A q \in 1..Len(periods) : \A j \in 1..Len(periods[q].transactions) :
          \E k \in 1..Len(txns) :
              /\ txns[k].ix = periods[q].transactions[j].ix
              /\ txns[k].transaction_id = periods[q].transactions[j].transaction_id
    /\ \A i \in 1..Len(income) :
          \E k \in 1..Len(txns) :
              /\ txns[k].ix = income[i].ix
              /\ txns[k].transaction_id = income[i].transaction_id

-----------------------------------------------------------------------------
(* Specification SpecBank: both detectors applied to one text               *)

MaxWords == 3

InitBank ==
    /\ pc = "bank"
    /\ txns = <<>>
    /\ income = <<>>
    /\ periods = <<>>
    /\ CatIdle
    /\ ExtIdle
    /\ PipeIdle
    /\ ParseIdle
    /\ \E n \in 0..MaxWords : \E t \in [1..n -> BankWords] : text = t
    /\ detected = None
    /\ detection = NoDetection
    /\ log = <<>>

NextBank == DetectFromText \/ DetectWithConfidence

SpecBank == InitBank /\ [][NextBank]_vars

\* C13: detect_from_text returns the bank detect_with_confidence ranks first,
\* and null exactly when no pattern of any bank matches the text;
\* detect_with_confidence lists the matching banks by descending match count,
\* its confidence is the top count over the sum of the counts, and the
\* confidence is above 0 and at most 1 whenever a bank is returned.
C13_BestMatch ==
    pc = "bank_done" =>
        /\ detected = detection.bank
        /\ detected = None <=> \A b \in 1..Len(BANK_PATTERNS) : ~BankMatches(b, text)
        /\ \A i \in 1..(Len(detection.matches) - 1) :
              detection.matches[i].match_count >= detection.matches[i + 1].match_count
        /\ detection.bank # None =>
              /\ detection.confidence =
                    Ratio(detection.matches[1].match_count,
                          SumSeq([i \in 1..Len(detection.matches) |->
                                      detection.matches[i].match_count]))
              /\ 0 < detection.confidence[1]
              /\ detection.confidence[1] <= detection.confidence[2]

-----------------------------------------------------------------------------
(* Specification SpecParse: one completion parsed by one of the functions   *)

MaxJsonTokens == 5

Forms == {"clean", "json_fence", "fence", "trailing_comma",
          "trailing_comma_space", "prose"}

\* Whether a trailing comma can stand before position k of the JSON text:
\* a closing bracket that follows a value
CanTrail(c, k) ==
    /\ k > 1
    /\ c[k] \in {"]", "}"}
    /\ c[k - 1] \notin {"[", "{", ","}

InsertAt(c, k, ins) == SubSeq(c, 1, k - 1) \o ins \o SubSeq(c, k, Len(c))

\* The completion that carries the JSON text c in the form f
Decorate(c, f, k) ==
    CASE f = "clean" -> c
      [] f = "json_fence" -> <<"<fence json>", " ">> \o c \o <<" ", "<fence>">>
      [] f = "fence" -> <<"<fence>", " ">> \o c \o <<" ", "<fence>">>
      [] f = "trailing_comma" -> InsertAt(c, k, <<",">>)
      [] f = "trailing_comma_space" -> InsertAt(c, k, <<",", " ">>)
      [] f = "prose" -> <<"x", " ">> \o c \o <<" ", "x">>

InitParse ==
    /\ pc = "completion"
    /\ txns = <<>>
    /\ income = <<>>
    /\ periods = <<>>
    /\ CatIdle
    /\ ExtIdle
    /\ PipeIdle
    /\ BankIdle
    /\ engine \in {"extract", "categorize"}
    /\ \E n \in 1..MaxJsonTokens : \E c \in [1..n -> JsonTokens] :
          /\ Loads(c) # None
          /\ clean = c
          /\ \E f \in Forms, k \in 1..n :
                /\ f \in {"trailing_comma", "trailing_comma_space"} => CanTrail(c, k)
                /\ form = f
                /\ response = Decorate(c, f, k)
    /\ parsed = Raised
    /\ log = <<>>

SpecParse == InitParse /\ [][ParseCompletion]_vars

\* C14: the parser yields, for the JSON text wrapped in json fences and
\* for the JSON text with a trailing comma before a closing bracket, with or
\* without white space between the two, the structure it yields for the
\* clean JSON text; and it raises a decode error only when the text fails to
\* parse after the fence strip, after the comma strip and after the
\* substring extraction.
C14_JsonRecovery ==
    pc = "parsed" =>
        /\ form \in {"clean", "json_fence", "trailing_comma", "trailing_comma_space"}
              => parsed = ParseResponse(engine, clean)
        /\ (engine = "extract" /\ ~parsed.ok) =>
              /\ Loads(FenceStrip(response)) = None
              /\ Loads(StripTrailingCommas(FenceStrip(response))) = None

-----------------------------------------------------------------------------
(* Further claims about detect_income and group_into_periods (SpecPeriods)  *)

\* C25: detect_income returns the empty list when no transaction is a
\* candidate, and group_into_periods with an empty income list returns one
\* period, no-income, with income_amount 0, no income transaction,
\* remaining_balance 0 and no starting or ending balance, whose list holds
\* every input transaction once, in date order.
C25_NoIncome ==
    /\ CandidatePositions(txns) = {} => detect_income(txns) = <<>>
    /\ (pc = "grouped" /\ income = <<>>) =>
          /\ Len(periods) = 1
          /\ periods[1].period_id = "no-income"
          /\ periods[1].income_amount = 0
          /\ periods[1].income_transaction = None
          /\ periods[1].remaining_balance = Some(0)
          /\ periods[1].starting_balance = None
          /\ periods[1].ending_balance = None
          /\ Len(periods[1].transactions) = Len(txns)
          /\ IxsOf(periods[1].transactions) = IxsOf(txns)
          /\ InDateOrder(periods[1].transactions)

\* Three transactions out of date order, a credit below the floor among
\* them, no income detected, and the single no-income period returned
C25_Witness ==
    /\ pc = "grouped"
    /\ Len(txns) = 3
    /\ ~InDateOrder(txns)
    /\ \E k \in 1..3 : txns[k].transaction_type = "credit"
    /\ detect_income(txns) = <<>>
    /\ income = <<>>
    /\ Len(periods) = 1
    /\ Len(periods[1].transactions) = 3

-----------------------------------------------------------------------------
(* Further claims about validate_periods (SpecValidate)                     *)

\* The warnings of one type made for the period
WarningsFor(period, type) ==
    SelectSeq(validation_results.warnings,
              LAMBDA w : w.period_id = period.period_id /\ w.type = type)

\* The categories the debits of the period fall under
DebitCategories(period) ==
    { (IF period.transactions[k].category = Absent THEN "Other"
       ELSE period.transactions[k].category) :
         k \in { j \in 1..Len(period.transactions) :
                    period.transactions[j].transaction_type = "debit" } }

\* The sum of the absolute amounts of the debits of ts under category c
RECURSIVE AbsDebitSum(_, _)
AbsDebitSum(ts, c) ==
    IF ts = <<>> THEN 0
    ELSE AbsDebitSum(Tail(ts), c)
         + (IF /\ Head(ts).transaction_type = "debit"
               /\ (IF Head(ts).category = Absent THEN "Other" ELSE Head(ts).category) = c
            THEN Abs(Head(ts).amount) ELSE 0)

\* C26: validate_periods makes no warning and no suspicious entry for the
\* pre-income period and for a period with income_amount zero; for each other
\* period it makes one high-severity spending_exceeds_income warning carrying
\* total_expenses - income_amount exactly when total_expenses is more than
\* income_amount times max_spending_ratio, and one medium-severity
\* category_exceeds_threshold warning for exactly each category whose summed
\* absolute debit amounts are more than income_amount times
\* suspicious_category_ratio; it makes no other warning.
C26_ValidatorWarnings ==
    pc = "validated" =>
        /\ \A q \in 1..Len(periods) :
              LET period == periods[q]
                  spending == WarningsFor(period, "spending_exceeds_income")
                  over == WarningsFor(period, "category_exceeds_threshold")
              IN  IF period.period_id = "pre-income" \/ period.income_amount = 0
                  THEN /\ spending = <<>>
                       /\ over = <<>>
                       /\ \A j \in 1..Len(validation_results.suspicious_transactions) :
                             validation_results.suspicious_transactions[j].period_id
                                # period.period_id
                  ELSE /\ IF period.total_expenses > period.income_amount
                          THEN /\ Len(spending) = 1
                               /\ spending[1].severity = "high"
                               /\ spending[1].excess
                                     = Some(period.total_expenses - period.income_amount)
                          ELSE spending = <<>>
                       /\ \A j \in 1..Len(over) :
                             /\ over[j].severity = "medium"
                             /\ over[j].category \in DebitCategories(period)
                             /\ over[j].total
                                   = AbsDebitSum(period.transactions, over[j].category)
                       /\ \A c \in DebitCategories(period) :
                             Len(SelectSeq(over, LAMBDA w : w.category = c))
                                = (IF 10 * AbsDebitSum(period.transactions, c)
                                        > 3 * period.income_amount
                                   THEN 1 ELSE 0)
        /\ \A j \in 1..Len(validation_results.warnings) :
              /\ validation_results.warnings[j].type
                    \in {"spending_exceeds_income", "category_exceeds_threshold"}
              /\ \E q \in 1..Len(periods) :
                    validation_results.warnings[j].period_id = periods[q].period_id

\* A skipped pre-income period holding a debit of 600, followed by a period
\* with income 1000 whose two debits of 600 fall under Shopping and, having
\* no category, under Other: the expenses of 1200 make the spending warning
\* with excess 200, and each of the two categories makes its own warning.
C26_Witness ==
    /\ pc = "validated"
    /\ Len(periods) = 2
    /\ periods[1].period_id = "pre-income"
    /\ Len(periods[1].transactions) = 1
    /\ periods[1].transactions[1].amount = 0 - 600
    /\ periods[2].income_amount = 1000
    /\ periods[2].total_expenses = 1200
    /\ Len(periods[2].transactions) = 2
    /\ periods[2].transactions[1].category = "Shopping"
    /\ periods[2].transactions[2].category = Absent
    /\ Len(validation_results.warnings) = 3
    /\ validation_results.warnings[1].type = "spending_exceeds_income"
    /\ validation_results.warnings[1].severity = "high"
    /\ validation_results.warnings[1].excess = Some(200)
    /\ validation_results.warnings[2].category = "Shopping"
    /\ validation_results.warnings[3].category = "Other"
    /\ validation_results.warnings[3].severity = "medium"

-----------------------------------------------------------------------------
(* Further claims about categorize_transactions (SpecBatch)                 *)

\* ceil(n / size): the least number of batches of that size that hold n
CeilDiv(n, size) == CHOOSE m \in 0..n : m * size >= n /\ (m = 0 \/ (m - 1) * size < n)

\* C27: categorize_transactions returns a list as long as its input that
\* holds the dictionaries of the input in input order, each once, and makes
\* ceil(n / batch_size) inference calls, one per batch and none twice,
\* whichever batches succeed or fail; an empty input makes no call.
C27_SameListOneCallPerBatch ==
    (pc \in {"cat_start", "cat_loop", "cat_done"}) =>
        /\ \A j \in 1..Len(cat_txns) : cat_txns[j].ix = j
        /\ CountOf(log, "call") = batch_idx
        /\ Len(categorized) = Min2(batch_idx * batch_size, Len(cat_txns))
        /\ \A j \in 1..Len(categorized) : categorized[j] = cat_txns[j]
        /\ pc = "cat_done" =>
              /\ Len(categorized) = Len(cat_txns)
              /\ \A j \in 1..Len(cat_txns) :
                    Cardinality({i \in 1..Len(categorized) : categorized[i].ix = j}) = 1
              /\ \A i, j \in 1..Len(categorized) :
                    i < j => categorized[i].ix < categorized[j].ix
              /\ CountOf(log, "call") = CeilDiv(Len(cat_txns), batch_size)

\* Three transactions in batches of two: the first batch was categorized,
\* the short second batch failed, and the list returned holds all three
\* after two calls
C27_Witness ==
    /\ pc = "cat_done"
    /\ Len(cat_txns) = 3
    /\ batch_size = 2
    /\ batch_failed
    /\ categorized[1].category = "Shopping"
    /\ IsFallback(categorized[3])
    /\ Len(categorized) = 3
    /\ CountOf(log, "call") = 2

-----------------------------------------------------------------------------
(* Further claims about detect_income (SpecIncome)                          *)

\* C28: detect_income returns a list that is not empty whenever its input
\* holds a credit of at least twice the floor, for any number of such
\* credits, of equal or of different amounts.
C28_LargeCreditDetected ==
    pc = "income" =>
        ((\E k \in 1..Len(txns) :
              /\ txns[k].transaction_type = "credit"
              /\ txns[k].amount >= 2 * min_amount)
          => income # <<>>)

-----------------------------------------------------------------------------
(* Further claims about steps 5c-5e of extract_from_file (SpecPipeline)     *)

\* C29: re_categorize_suspicious gives each suspicious transaction the entry
\* of the response that carries its transaction_id: whatever the order of the
\* entries, and whichever are left out, a transaction of the list returned
\* keeps its category or takes the one the response proposes under its own
\* id, never the one proposed for another transaction.  Stated for
\* statements whose transactions have ids that differ.
C29_RecatMatchesById ==
    (/\ pc \in {"recat", "assembled"}
     /\ r_idx >= 1
     /\ recat_outcome = "list"
     /\ \A i, j \in 1..Len(txns) :
           i # j => txns[i].transaction_id # txns[j].transaction_id)
    => /\ Len(re_categorized) = Len(suspicious_list)
       /\ \A i \in 1..Len(suspicious_list) :
             /\ re_categorized[i].ix = suspicious_list[i].ix
             /\ re_categorized[i].category
                   \in {CategoryOf(suspicious_list[i]), NewCategory(suspicious_list[i])}

\* C30: over a run of extract_from_file any two consecutive inference calls
\* are separated by the delay: the call for the last batch of a period and
\* the call for the first batch of the next period, and a categorization
\* call and the re-categorization call after it, as well as the calls of two
\* batches of one period.
C30_DelayBetweenAllCalls ==
    \A i \in 1..(Len(log) - 1) : log[i] = "call" => log[i + 1] = "sleep"

=============================================================================
